---- MODULE Spec2Model ----
(***************************************************************************)
(* Verification model of the vibe-coder validation scripts.                *)
(*                                                                         *)
(* Part 1: skills/beads-validation/scripts/validate_beads.py.  One run of  *)
(* main() is a sequence of steps (argument normalisation, the selected     *)
(* checks in source order, the summary); the issue tracker `bd` and the    *)
(* PRD file are the environment.  Every call of run_cmd draws the outcome  *)
(* of the external command from a small set; the tracker's issue list is   *)
(* state that other users of the tracker may change between two steps.     *)
(***************************************************************************)
EXTENDS Integers, Sequences, FiniteSets, TLC

(***************************************************************************)
(* Bounds of the model.                                                    *)
(***************************************************************************)
\* issues the tracker may hold; ids are 1..MaxIssues, assigned in order
MaxIssues == 1
\* lines of the PRD file
MaxLines == 1

(***************************************************************************)
(* Data: issue records as `bd list --json` prints them.                    *)
(***************************************************************************)
IssueIds == 1..MaxIssues
\* ids a dependency may name: every issue id and one id no issue ever has
DepIds == 1..(MaxIssues + 1)
Statuses == {"open", "closed"}
\* 2 stands for the valid priorities 1..3, 7 for any value outside them
Priorities == {2, 7}
\* an issue's "dependencies": no entry, or one
DepLists == {<<>>} \cup {<<d>> : d \in DepIds}

IssueRecord(i) ==
    [id : {i}, status : Statuses, priority : Priorities, dependencies : DepLists]

\* the tracker's issue lists: the k-th issue created has id k
Trackers ==
    UNION {{t \in [1..n -> UNION {IssueRecord(i) : i \in IssueIds}] :
                \A k \in 1..n : t[k].id = k} : n \in 0..MaxIssues}

\* a check's message: the fixed text and the values formatted into it
Msg(text, items) == [text |-> text, items |-> items]

(***************************************************************************)
(* Text of a command's output.  A text is abstracted to what the code      *)
(* tests of it: `payload` is what json.loads makes of it, `frags` the      *)
(* lower-cased fragments (of those the code searches for) it contains.     *)
(***************************************************************************)
Fragments == {"circular", "cycle", "no open issues", "no issues", "issue-id"}
Payloads == {"blank", "issues", "null", "garbage"}
Text(payload, frags) == [payload |-> payload, frags |-> frags]
\* the empty string
EmptyText == Text("blank", {})
\* the string "Timeout": no JSON, and none of the fragments
TimeoutText == Text("garbage", {})
\* stdout + stderr
Concat(a, b) ==
    Text(IF a.payload = "blank" THEN b.payload
         ELSE IF b.payload = "blank" THEN a.payload ELSE "garbage",
         a.frags \cup b.frags)
\* frag in text.lower()
Contains(text, frag) == frag \in text.frags

(***************************************************************************)
(* What subprocess.run does with one command: the process exits with a     *)
(* code and its output, runs into the timeout, or cannot be started.       *)
(***************************************************************************)
Exited(code, out, err) == [kind |-> "exit", code |-> code, stdout |-> out, stderr |-> err]
TimedOut == [kind |-> "timeout", code |-> 0, stdout |-> EmptyText, stderr |-> EmptyText]
\* subprocess.run raises another exception e; stderr stands for str(e)
Failed(err) == [kind |-> "error", code |-> 0, stdout |-> EmptyText, stderr |-> err]

\* run_cmd: (returncode, stdout, stderr), never an exception
run_cmd(proc) ==
    IF proc.kind = "timeout" THEN [code |-> -1, stdout |-> EmptyText, stderr |-> TimeoutText]
    ELSE IF proc.kind = "error" THEN [code |-> -1, stdout |-> EmptyText, stderr |-> proc.stderr]
    ELSE [code |-> proc.code, stdout |-> proc.stdout, stderr |-> proc.stderr]

\* "bd list --json 2>/dev/null": stderr is discarded by the shell
BdListRuns ==
    {Exited(0, Text(p, {}), EmptyText) : p \in Payloads}
        \cup {Exited(1, EmptyText, EmptyText), TimedOut, Failed(Text("garbage", {}))}
\* "bd doctor 2>&1": everything the tool prints is on stdout
BdDoctorRuns ==
    {Exited(c, Text("garbage", f), EmptyText) : c \in {0, 1}, f \in {{}, {"cycle"}, {"circular"}}}
        \cup {TimedOut}
\* "bd ready --limit=1 2>&1"
BdReadyRuns ==
    {Exited(c, Text("garbage", f), EmptyText) :
        c \in {0, 1}, f \in {{}, {"no issues"}, {"no open issues"}, {"issue-id"}}}
        \cup {TimedOut}

(***************************************************************************)
(* get_issues.  A Python value that is a list of issue records is          *)
(* [is_list |-> TRUE, items |-> the list]; None (the JSON text null) is    *)
(* [is_list |-> FALSE, items |-> <<>>].                                    *)
(***************************************************************************)
PyList(items) == [is_list |-> TRUE, items |-> items]
PyNone == [is_list |-> FALSE, items |-> <<>>]

\* json.loads(stdout) of the tracker's answer
json_loads(stdout, issues) ==
    IF stdout.payload = "issues" THEN [error |-> FALSE, value |-> PyList(issues)]
    ELSE IF stdout.payload = "null" THEN [error |-> FALSE, value |-> PyNone]
    ELSE [error |-> TRUE, value |-> PyNone]

get_issues(proc, issues) ==
    LET r == run_cmd(proc) IN
    IF r.code # 0 THEN PyList(<<>>)
    ELSE IF r.stdout.payload = "blank" THEN PyList(<<>>)
    ELSE LET j == json_loads(r.stdout, issues) IN
         IF j.error THEN PyList(<<>>) ELSE j.value

\* the tracker answered the query: it exited with 0 and printed its issue list
tracker_answered(proc) ==
    LET r == run_cmd(proc) IN r.code = 0 /\ r.stdout.payload = "issues"

(***************************************************************************)
(* count_prd_features.  A line of the PRD is abstracted to what the loop   *)
(* tests: whether it contains "feature"/"mvp" (kw), and whether it starts  *)
(* with "##" (h2), matches one of the two item patterns (item), or neither.*)
(***************************************************************************)
PrdLines == [kw : BOOLEAN, start : {"h2", "item", "other"}]
PrdDocuments ==
    [readable : {TRUE}, lines : UNION {[1..n -> PrdLines] : n \in 0..MaxLines}]
        \cup {[readable |-> FALSE, lines |-> <<>>]}

RECURSIVE count_items(_, _, _)
\* the loop of lines 64-73 from line k on, with the current in_features
count_items(lines, k, in_features) ==
    IF k > Len(lines) THEN 0
    ELSE LET inf == IF lines[k].kw THEN TRUE
                    ELSE IF lines[k].start = "h2" /\ in_features THEN FALSE
                    ELSE in_features
         IN (IF inf /\ lines[k].start = "item" THEN 1 ELSE 0)
                + count_items(lines, k + 1, inf)

count_prd_features(doc) ==
    IF ~doc.readable THEN 0
    ELSE LET features == count_items(doc.lines, 1, FALSE) IN
         IF features > 0 THEN features ELSE 4

(***************************************************************************)
(* The checks.  Each returns (passed, msg), or raises: a check that is     *)
(* handed None where it expects the issue list raises TypeError.           *)
(***************************************************************************)
Returns(passed, msg) == [raised |-> FALSE, passed |-> passed, msg |-> msg]
Raises == [raised |-> TRUE, passed |-> FALSE, msg |-> Msg("TypeError", <<>>)]

\* mutant of check_prd_mapping: as many issues as features do not suffice
check_prd_mapping_mut(doc, proc, tracker_issues) ==
    LET prd_features == count_prd_features(doc)
        issues == get_issues(proc, tracker_issues)
        issue_count == Len(issues.items)
    IN  IF ~issues.is_list THEN Raises
        ELSE IF prd_features = 0
            THEN Returns(TRUE, Msg("Could not parse PRD features", <<>>))
        ELSE IF issue_count > prd_features
            THEN Returns(TRUE, Msg("PRD features: {}, Issues: {}",
                                   << <<prd_features, issue_count>> >>))
        ELSE Returns(FALSE, Msg("PRD has {} features, only {} issues created",
                                << <<prd_features, issue_count>> >>))

\* lines 80-92
check_prd_mapping(doc, proc, tracker_issues) ==
    LET prd_features == count_prd_features(doc)
        issues == get_issues(proc, tracker_issues)
        issue_count == Len(issues.items)
    IN  IF ~issues.is_list THEN Raises
        ELSE IF prd_features = 0
            THEN Returns(TRUE, Msg("Could not parse PRD features", <<>>))
        ELSE IF issue_count >= prd_features
            THEN Returns(TRUE, Msg("PRD features: {}, Issues: {}",
                                   << <<prd_features, issue_count>> >>))
        ELSE Returns(FALSE, Msg("PRD has {} features, only {} issues created",
                                << <<prd_features, issue_count>> >>))

\* issue_ids = {issue.get("id") for issue in issues}
issue_ids(issues) == {issues[k].id : k \in DOMAIN issues}

RECURSIVE invalid_of_issue_mut(_, _, _)
\* mutant of invalid_of_issue: the membership test without its "not"
invalid_of_issue_mut(issue, ids, k) ==
    IF k > Len(issue.dependencies) THEN <<>>
    ELSE (IF issue.dependencies[k] \in ids
             THEN << <<issue.id, issue.dependencies[k]>> >> ELSE <<>>)
            \o invalid_of_issue_mut(issue, ids, k + 1)

RECURSIVE invalid_of_issue(_, _, _)
\* the inner loop of lines 103-105 over the dependencies of one issue, from the k-th
invalid_of_issue(issue, ids, k) ==
    IF k > Len(issue.dependencies) THEN <<>>
    ELSE (IF issue.dependencies[k] \notin ids
             THEN << <<issue.id, issue.dependencies[k]>> >> ELSE <<>>)
            \o invalid_of_issue(issue, ids, k + 1)

RECURSIVE invalid_deps_mut(_, _, _)
\* mutant of invalid_deps: only the first violation is collected
invalid_deps_mut(issues, ids, k) ==
    IF k > Len(issues) THEN <<>>
    ELSE LET here == invalid_of_issue(issues[k], ids, 1) IN
         IF here # <<>> THEN <<here[1]>> ELSE invalid_deps_mut(issues, ids, k + 1)

RECURSIVE invalid_deps(_, _, _)
\* the outer loop of lines 101-105 over the issues, from the k-th
invalid_deps(issues, ids, k) ==
    IF k > Len(issues) THEN <<>>
    ELSE invalid_of_issue(issues[k], ids, 1) \o invalid_deps(issues, ids, k + 1)

check_dependencies(proc, tracker_issues) ==
    LET issues == get_issues(proc, tracker_issues) IN
    IF ~issues.is_list THEN Raises
    ELSE LET invalid == invalid_deps(issues.items, issue_ids(issues.items), 1) IN
         IF invalid # <<>> THEN Returns(FALSE, Msg("Invalid dependencies: {}", invalid))
         ELSE Returns(TRUE, Msg("All dependency IDs exist", <<>>))

\* the message quotes the first 200 characters of the tool's output, left out here
check_circular_deps(proc) ==
    LET r == run_cmd(proc)
        output == Concat(r.stdout, r.stderr)
    IN  IF Contains(output, "circular") \/ Contains(output, "cycle")
            THEN Returns(FALSE, Msg("Circular dependency detected: {}", <<>>))
        ELSE IF r.code = 0 THEN Returns(TRUE, Msg("No circular dependencies", <<>>))
        ELSE Returns(TRUE, Msg("bd doctor passed (or not available)", <<>>))

\* mutant of open_issues: the closed issues count as open
open_issues_mut(issues) == issues
\* open_issues = [i for i in issues if i.get("status") != "closed"]
open_issues(issues) == SelectSeq(issues, LAMBDA i : i.status # "closed")

\* whether check_ready_queue goes on to call get_issues (line 132)
ready_queries_list(proc) ==
    LET r == run_cmd(proc)
        output == Concat(r.stdout, r.stderr)
    IN  Contains(output, "no open issues") \/ Contains(output, "no issues")

\* the message of line 143 names the matched token, left out here
check_ready_queue(proc, list_proc, tracker_issues) ==
    LET r == run_cmd(proc)
        output == Concat(r.stdout, r.stderr)
    IN  IF ready_queries_list(proc)
        THEN LET issues == get_issues(list_proc, tracker_issues) IN
             IF ~issues.is_list THEN Raises
             ELSE IF open_issues(issues.items) = <<>>
                 THEN Returns(TRUE, Msg("No open issues (all done)", <<>>))
             ELSE Returns(FALSE, Msg("Issues exist but none are ready (all blocked)", <<>>))
        ELSE IF Contains(output, "issue-id")
            THEN Returns(TRUE, Msg("Ready queue has issue: {}", <<>>))
        ELSE Returns(TRUE, Msg("Ready queue check passed", <<>>))

\* mutant of valid_priority: only the upper end of the range is tested
valid_priority_mut(priority) == priority <= 3
\* priority not in [1, 2, 3]
valid_priority(priority) == priority \in {1, 2, 3}

RECURSIVE invalid_priorities(_, _)
\* the loop of lines 153-156 over the issues, from the k-th
invalid_priorities(issues, k) ==
    IF k > Len(issues) THEN <<>>
    ELSE (IF ~valid_priority(issues[k].priority)
             THEN << <<issues[k].id, issues[k].priority>> >> ELSE <<>>)
            \o invalid_priorities(issues, k + 1)

check_priorities(proc, tracker_issues) ==
    LET issues == get_issues(proc, tracker_issues) IN
    IF ~issues.is_list THEN Raises
    ELSE LET invalid == invalid_priorities(issues.items, 1) IN
         IF invalid # <<>> THEN Returns(FALSE, Msg("Invalid priorities: {}", invalid))
         ELSE Returns(TRUE, Msg("All priorities valid (1-3)", <<>>))

(***************************************************************************)
(* One run of main().                                                      *)
(***************************************************************************)
VARIABLES
    script,       \* the script whose main() runs
    args,         \* the parsed command line; prd: a --prd path was given
    tracker,      \* the issue list the tracker holds (what "bd list" would print)
    changed,      \* another user changed the tracker during the run
    pc,           \* where main() is
    results,      \* the list `results` of (name, passed, msg)
    stdout,       \* the lines printed
    exit_status,  \* the process's exit status, -1 while it runs
    loads,        \* history: every get_issues call of the run and what it returned
    previous,     \* history: the report of the run before this one, if the script was run again
    \* check.py, lint.py, verify.py and validate_project.py
    tool_args,    \* the parsed command line of the script
    tool_pc,      \* where its main() is
    tool_results, \* the list `results` of check.py and validate_project.py; lint.py: the codes
    tool_exit,    \* the process's exit status, -1 while it runs
    invoked,      \* history: the commands lint.py started, with their arguments
    report,       \* verify.py: the VerificationReport
    timed_out,    \* history: the checks one of whose commands ran into its timeout
    app,          \* the application process the run started (Popen)
    started,      \* verify.py: check_rust_startup's `started`
    probes,       \* verify.py: the health probes made so far
    index,        \* the position of the running loop in its list
    warnings,     \* validate_project.py: the list `warnings`
    validation    \* validate_prd.py: the ValidationResult `result`

beads_vars == <<args, tracker, changed, pc, results, stdout, exit_status, loads>>
tool_vars == <<tool_args, tool_pc, tool_results, tool_exit, invoked, report, timed_out, app,
               started, probes, index, warnings, validation>>
vars == <<script, previous, beads_vars, tool_vars>>

\* no run before this one
NoReport == [results |-> <<>>, stdout |-> <<>>, exit_status |-> -1]
\* no application process: none was started
NoApp == [state |-> "none", listening |-> FALSE]
\* the variables of a tool script before its main() has run
ToolsFresh ==
    /\ tool_results = <<>>
    /\ tool_exit = -1
    /\ invoked = <<>>
    /\ report = [passed |-> TRUE, checks |-> <<>>, summary |-> Msg("", <<>>)]
    /\ timed_out = {}
    /\ app = NoApp
    /\ started = FALSE
    /\ probes = 0
    /\ index = 0
    /\ warnings = <<>>
    /\ validation = [valid |-> TRUE, errors |-> <<>>, warnings |-> <<>>]
\* the state of the variables of the scripts that do not run
ToolsIdle ==
    /\ tool_args = [none |-> TRUE]
    /\ tool_pc = "idle"
    /\ ToolsFresh
BeadsIdle ==
    /\ args = [prd |-> FALSE, check_created |-> FALSE, check_deps |-> FALSE,
               check_ready |-> FALSE, all |-> FALSE]
    /\ tracker = <<>>
    /\ changed = FALSE
    /\ pc = "idle"
    /\ results = <<>>
    /\ stdout = <<>>
    /\ exit_status = -1
    /\ loads = <<>>
    /\ previous = NoReport
\* one of the tool scripts is started with a command line of `argsets`
ToolStart(name, argsets) ==
    /\ script = name
    /\ tool_args \in argsets
    /\ tool_pc = "parse"
    /\ ToolsFresh
    /\ BeadsIdle

\* argparse: four store_true flags and the optional --prd.  The three families
\* are selected together by --all alone: after lines 177-180 the command lines that
\* also (or instead) give all three family flags differ in nothing the run reads
ArgSets ==
    {a \in [prd : BOOLEAN, check_created : BOOLEAN, check_deps : BOOLEAN,
             check_ready : BOOLEAN, all : BOOLEAN] :
        /\ a.all => ~(a.check_created \/ a.check_deps \/ a.check_ready)
        /\ ~(a.check_created /\ a.check_deps /\ a.check_ready)}

Line(tag, name, msg) == [tag |-> tag, name |-> name, msg |-> msg]
Result(name, res) == [name |-> name, passed |-> res.passed, msg |-> res.msg]
Load(by, proc, issues) ==
    [by |-> by, answered |-> tracker_answered(proc), issues |-> get_issues(proc, issues)]

Init ==
    /\ script = "validate_beads"
    /\ ToolsIdle
    /\ args \in ArgSets
    /\ tracker \in Trackers
    /\ changed = FALSE
    /\ pc = "parse"
    /\ results = <<>>
    /\ stdout = <<>>
    /\ exit_status = -1
    /\ loads = <<>>
    /\ previous = NoReport

\* mutant of ParseArgs: --all leaves the Ready Queue family out
ParseArgs_mut ==
    /\ pc = "parse"
    /\ args' = IF args.all
                 THEN [args EXCEPT !.check_created = TRUE, !.check_deps = TRUE,
                                   !.check_ready = FALSE]
                 ELSE args
    /\ stdout' = Append(stdout, Line("", "", Msg("## Beads Validation", <<>>)))
    /\ pc' = "prd"
    /\ UNCHANGED <<tracker, changed, results, exit_status, loads>>
    /\ UNCHANGED <<script, previous, tool_vars>>

\* lines 175-182: --all selects the three optional families; the heading is printed
ParseArgs ==
    /\ pc = "parse"
    /\ args' = IF args.all
                 THEN [args EXCEPT !.check_created = TRUE, !.check_deps = TRUE,
                                   !.check_ready = TRUE]
                 ELSE args
    /\ stdout' = Append(stdout, Line("", "", Msg("## Beads Validation", <<>>)))
    /\ pc' = "prd"
    /\ UNCHANGED <<tracker, changed, results, exit_status, loads>>
    /\ UNCHANGED <<script, previous, tool_vars>>

\* a check returned: results.append((name, passed, msg)) and the line printed for it;
\* or it raised, which nothing catches: the interpreter prints the traceback to
\* stderr and the process ends with status 1
Finish(name, fail_tag, res, next) ==
    IF res.raised
    THEN /\ pc' = "crashed"
         /\ exit_status' = 1
         /\ UNCHANGED <<results, stdout>>
    ELSE /\ results' = Append(results, Result(name, res))
         /\ stdout' = Append(stdout, Line(IF res.passed THEN "PASS" ELSE fail_tag, "", res.msg))
         /\ pc' = next
         /\ UNCHANGED exit_status

\* lines 187-190
RunPrdMapping ==
    /\ pc = "prd"
    /\ args.check_created /\ args.prd
    /\ \E doc \in PrdDocuments, proc \in BdListRuns :
          /\ Finish("PRD Mapping", "WARN", check_prd_mapping(doc, proc, tracker), "deps")
          /\ loads' = Append(loads, Load("PRD Mapping", proc, tracker))
    /\ UNCHANGED <<args, tracker, changed>>
    /\ UNCHANGED <<script, previous, tool_vars>>

SkipPrdMapping ==
    /\ pc = "prd"
    /\ ~(args.check_created /\ args.prd)
    /\ pc' = "deps"
    /\ UNCHANGED <<args, tracker, changed, results, stdout, exit_status, loads>>
    /\ UNCHANGED <<script, previous, tool_vars>>

\* lines 193-196
RunDependencies ==
    /\ pc = "deps"
    /\ args.check_deps
    /\ \E proc \in BdListRuns :
          /\ Finish("Dependencies", "FAIL", check_dependencies(proc, tracker), "circular")
          /\ loads' = Append(loads, Load("Dependencies", proc, tracker))
    /\ UNCHANGED <<args, tracker, changed>>
    /\ UNCHANGED <<script, previous, tool_vars>>

\* lines 198-200
RunCircularDeps ==
    /\ pc = "circular"
    /\ \E proc \in BdDoctorRuns :
          Finish("Circular Deps", "FAIL", check_circular_deps(proc), "ready")
    /\ UNCHANGED <<args, tracker, changed, loads>>
    /\ UNCHANGED <<script, previous, tool_vars>>

SkipDependencies ==
    /\ pc = "deps"
    /\ ~args.check_deps
    /\ pc' = "ready"
    /\ UNCHANGED <<args, tracker, changed, results, stdout, exit_status, loads>>
    /\ UNCHANGED <<script, previous, tool_vars>>

\* lines 203-206
RunReadyQueue ==
    /\ pc = "ready"
    /\ args.check_ready
    /\ \E proc \in BdReadyRuns, list_proc \in BdListRuns :
          /\ Finish("Ready Queue", "FAIL", check_ready_queue(proc, list_proc, tracker),
                    "priorities")
          /\ loads' = IF ready_queries_list(proc)
                        THEN Append(loads, Load("Ready Queue", list_proc, tracker))
                        ELSE loads
    /\ UNCHANGED <<args, tracker, changed>>
    /\ UNCHANGED <<script, previous, tool_vars>>

SkipReadyQueue ==
    /\ pc = "ready"
    /\ ~args.check_ready
    /\ pc' = "priorities"
    /\ UNCHANGED <<args, tracker, changed, results, stdout, exit_status, loads>>
    /\ UNCHANGED <<script, previous, tool_vars>>

\* lines 209-211
RunPriorities ==
    /\ pc = "priorities"
    /\ \E proc \in BdListRuns :
          /\ Finish("Priorities", "FAIL", check_priorities(proc, tracker), "summary")
          /\ loads' = Append(loads, Load("Priorities", proc, tracker))
    /\ UNCHANGED <<args, tracker, changed>>
    /\ UNCHANGED <<script, previous, tool_vars>>

\* mutant of failed_results: a failed Ready Queue check counts as a warning
failed_results_mut(rs) == SelectSeq(rs, LAMBDA r : ~r.passed /\ r.name # "Ready Queue")
\* failed = [(n, m) for n, p, m in results if not p]
failed_results(rs) == SelectSeq(rs, LAMBDA r : ~r.passed)
\* passed_count = sum(1 for _, p, _ in results if p)
passed_count(rs) == Len(SelectSeq(rs, LAMBDA r : r.passed))
\* mutant of exit_code: the status follows `passed`, the last check's outcome
exit_code_mut(rs) == IF rs # <<>> /\ ~rs[Len(rs)].passed THEN 1 ELSE 0
\* lines 220-227: sys.exit(1) if failed, else sys.exit(0)
exit_code(rs) == IF failed_results(rs) # <<>> THEN 1 ELSE 0

\* the lines printed for the failed results (lines 222-223)
failed_lines(failed) == [k \in DOMAIN failed |-> Line("-", failed[k].name, failed[k].msg)]

\* lines 214-227
Summary ==
    /\ pc = "summary"
    /\ LET failed == failed_results(results)
           head == Append(stdout, Line("", "", Msg("Result: {}/{} checks passed",
                                           << <<passed_count(results), Len(results)>> >>)))
       IN stdout' = IF failed # <<>>
                      THEN Append(head, Line("", "", Msg("Issues ({}):",
                                                 << <<Len(failed), Len(failed)>> >>)))
                               \o failed_lines(failed)
                      ELSE Append(head, Line("", "", Msg("[OK] Beads validation passed", <<>>)))
    /\ exit_status' = exit_code(results)
    /\ pc' = "exited"
    /\ UNCHANGED <<args, tracker, changed, results, loads>>
    /\ UNCHANGED <<script, previous, tool_vars>>

(***************************************************************************)
(* The tracker is shared: between two queries of the run another user may  *)
(* create an issue (a change before the first query or after the last is a *)
(* run against another tracker).                                           *)
(***************************************************************************)
\* what "bd create" makes of a title alone
NewIssue(i) == [id |-> i, status |-> "open", priority |-> 2, dependencies |-> <<>>]

TrackerCreate ==
    /\ loads # <<>>
    /\ pc \in {"deps", "circular", "ready", "priorities"}
    /\ Len(tracker) < MaxIssues
    /\ tracker' = Append(tracker, NewIssue(Len(tracker) + 1))
    /\ changed' = TRUE
    /\ UNCHANGED <<args, pc, results, stdout, exit_status, loads>>
    /\ UNCHANGED <<script, previous, tool_vars>>

Next ==
    \/ ParseArgs
    \/ RunPrdMapping
    \/ SkipPrdMapping
    \/ RunDependencies
    \/ RunCircularDeps
    \/ SkipDependencies
    \/ RunReadyQueue
    \/ SkipReadyQueue
    \/ RunPriorities
    \/ Summary
    \/ TrackerCreate

Spec == Init /\ [][Next]_vars

(***************************************************************************)
(* The validator run twice: when a run has ended, by sys.exit or by an     *)
(* uncaught exception, the same command line is run once more, against the *)
(* tracker as it then is.  Each run is a process of its own: nothing but   *)
(* the tracker is carried over, and the first report is kept for           *)
(* comparison.                                                             *)
(***************************************************************************)
\* what a run leaves to its caller: `results`, the lines printed, the exit status
Report == [results |-> results, stdout |-> stdout, exit_status |-> exit_status]

RunAgain ==
    /\ pc \in {"exited", "crashed"}
    /\ previous = NoReport
    /\ previous' = Report
    /\ pc' = "parse"
    /\ results' = <<>>
    /\ stdout' = <<>>
    /\ exit_status' = -1
    /\ loads' = <<>>
    /\ UNCHANGED <<args, tracker, changed>>
    /\ UNCHANGED <<script, tool_vars>>

\* the command lines run twice: --all, and --check-created with --prd
TwiceArgSets ==
    {a \in ArgSets : \/ a.all /\ ~a.prd
                     \/ a.prd /\ a.check_created /\ ~a.check_deps /\ ~a.check_ready}

TwiceInit ==
    /\ Init
    /\ args \in TwiceArgSets

TwiceNext ==
    \/ Next
    \/ RunAgain

SpecTwice == TwiceInit /\ [][TwiceNext]_vars

(***************************************************************************)
(* The checks of validate_beads.py on wider inputs: a run that has reached *)
(* PRD Mapping, Dependencies or Ready Queue with no result yet (the checks *)
(* before it were not selected), against trackers with more issues, more   *)
(* dependencies per issue and every priority around the valid range.       *)
(***************************************************************************)
\* issues of a tracker whose dependencies or priorities vary
MaxGraphIssues == 2
\* dependencies one issue lists
MaxDeps == 2
\* issues of a tracker of which only the number matters
MaxCount == 5

\* the ids a dependency may name: every issue id and one id no issue has
GraphDepIds == 1..(MaxGraphIssues + 1)
\* "dependencies": the tracker lists a dependency of an issue once
DepSeqs ==
    UNION {{s \in [1..n -> GraphDepIds] : \A i, j \in 1..n : s[i] = s[j] => i = j} :
               n \in 0..MaxDeps}
GraphTrackers ==
    UNION {{t \in [1..n -> [id : 1..MaxGraphIssues, status : {"open"}, priority : {2},
                             dependencies : DepSeqs]] :
                \A k \in 1..n : t[k].id = k} : n \in 0..MaxGraphIssues}
\* the valid priorities 1..3 and their two neighbours
PriorityValues == 0..4
PriorityTrackers ==
    UNION {{t \in [1..n -> [id : 1..MaxGraphIssues, status : Statuses,
                             priority : PriorityValues, dependencies : {<<>>}]] :
                \A k \in 1..n : t[k].id = k} : n \in 0..MaxGraphIssues}
CountTrackers == {[k \in 1..n |-> NewIssue(k)] : n \in 0..MaxCount}

\* a command line that selects the given check families
Selecting(created, deps, ready) ==
    [prd |-> created, check_created |-> created, check_deps |-> deps, check_ready |-> ready,
     all |-> FALSE]

ChecksInit ==
    /\ script = "validate_beads"
    /\ ToolsIdle
    /\ \/ pc = "prd" /\ args = Selecting(TRUE, FALSE, FALSE) /\ tracker \in CountTrackers
       \/ pc = "deps" /\ args = Selecting(FALSE, TRUE, FALSE) /\ tracker \in GraphTrackers
       \/ pc = "ready" /\ args = Selecting(FALSE, FALSE, TRUE) /\ tracker \in PriorityTrackers
    /\ changed = FALSE
    /\ results = <<>>
    /\ stdout = <<Line("", "", Msg("## Beads Validation", <<>>))>>
    /\ exit_status = -1
    /\ loads = <<>>
    /\ previous = NoReport

ChecksNext ==
    \/ RunPrdMapping
    \/ RunDependencies
    \/ RunReadyQueue
    \/ RunPriorities

SpecChecks == ChecksInit /\ [][ChecksNext]_vars

(***************************************************************************)
(* The scripts that run external commands: check.py, lint.py, verify.py    *)
(* and validate_project.py.  What a started command does is the            *)
(* environment's choice: it exits with status 0 or with another status, it *)
(* never exits, or it cannot be started (the executable is missing).       *)
(***************************************************************************)
\* the steps or tools a run has executed so far, in order
Executed(rs) == [k \in DOMAIN rs |-> rs[k].step]
Range(seq) == {seq[k] : k \in DOMAIN seq}
\* the variables of the tool scripts that one step leaves alone
Unchanged(changing) ==
    /\ IF "tool_args" \in changing THEN TRUE ELSE UNCHANGED tool_args
    /\ IF "tool_pc" \in changing THEN TRUE ELSE UNCHANGED tool_pc
    /\ IF "tool_results" \in changing THEN TRUE ELSE UNCHANGED tool_results
    /\ IF "tool_exit" \in changing THEN TRUE ELSE UNCHANGED tool_exit
    /\ IF "invoked" \in changing THEN TRUE ELSE UNCHANGED invoked
    /\ IF "report" \in changing THEN TRUE ELSE UNCHANGED report
    /\ IF "timed_out" \in changing THEN TRUE ELSE UNCHANGED timed_out
    /\ IF "app" \in changing THEN TRUE ELSE UNCHANGED app
    /\ IF "started" \in changing THEN TRUE ELSE UNCHANGED started
    /\ IF "probes" \in changing THEN TRUE ELSE UNCHANGED probes
    /\ IF "index" \in changing THEN TRUE ELSE UNCHANGED index
    /\ IF "warnings" \in changing THEN TRUE ELSE UNCHANGED warnings
    /\ IF "validation" \in changing THEN TRUE ELSE UNCHANGED validation
    /\ UNCHANGED <<script, previous, beads_vars>>

(***************************************************************************)
(* check.py: the CI runner.                                                *)
(***************************************************************************)
STEPS == <<"lint", "test", "audit", "build">>
\* step names one --only or --skip option may list
MaxNamed == 2
NamedLists == UNION {[1..n -> Range(STEPS)] : n \in 0..MaxNamed}

\* argparse: only = <<>> stands for None (nargs="+" takes at least one name), and
\* --skip is read only without --only; cargo_toml: find_cargo_toml finds the project.
\* --release and --path change the commands' arguments only
CheckArgSets ==
    {a \in [continue_on_fail : BOOLEAN, only : NamedLists, skip : NamedLists,
             cargo_toml : BOOLEAN] : a.only # <<>> => a.skip = <<>>}

\* mutant of steps_to_run: the steps of --only are run as they were named
steps_to_run_mut(a) ==
    IF a.only # <<>> THEN a.only
    ELSE SelectSeq(STEPS, LAMBDA s : s \notin Range(a.skip))
\* lines 110-113
steps_to_run(a) ==
    IF a.only # <<>> THEN SelectSeq(STEPS, LAMBDA s : s \in Range(a.only))
    ELSE SelectSeq(STEPS, LAMBDA s : s \notin Range(a.skip))

\* subprocess.run(...) of run_step, called without a timeout: the return code, or
\* no return at all.  (sys.executable runs the step's script: it is never missing.)
StepRuns == {"zero", "nonzero", "forever"}
returncode(run) == IF run = "zero" THEN 0 ELSE 1

\* mutant of stop_after: --continue is not read
stop_after_mut(exit_code_of_step, a) == exit_code_of_step # 0
\* line 129: if exit_code != 0 and not args.continue_on_fail
stop_after(exit_code_of_step, a) == exit_code_of_step # 0 /\ ~a.continue_on_fail

\* lines 102-120
CheckParse ==
    /\ script = "check" /\ tool_pc = "parse"
    /\ IF ~tool_args.cargo_toml
       THEN tool_pc' = "exited" /\ tool_exit' = 1
       ELSE /\ tool_pc' = IF steps_to_run(tool_args) = <<>> THEN "summary" ELSE "loop"
            /\ UNCHANGED tool_exit
    /\ Unchanged({"tool_pc", "tool_exit"})

\* lines 122-131: one pass of the loop
CheckRunStep ==
    /\ script = "check" /\ tool_pc = "loop"
    /\ LET steps == steps_to_run(tool_args)
           step == steps[Len(tool_results) + 1]
       IN \E run \in StepRuns :
            IF run = "forever"
            THEN tool_pc' = "blocked" /\ UNCHANGED tool_results
            ELSE /\ tool_results' = Append(tool_results,
                                           [step |-> step, exit_code |-> returncode(run)])
                 /\ tool_pc' = IF \/ stop_after(returncode(run), tool_args)
                                  \/ Len(tool_results) + 1 = Len(steps)
                               THEN "summary" ELSE "loop"
    /\ Unchanged({"tool_pc", "tool_results"})

\* lines 140-149: failed += 1 for every result with a non-zero exit code
failed_steps(rs) == Len(SelectSeq(rs, LAMBDA r : r.exit_code # 0))

\* lines 133-156: main() returns, and the status is 0, unless a step failed
CheckSummary ==
    /\ script = "check" /\ tool_pc = "summary"
    /\ tool_exit' = IF failed_steps(tool_results) > 0 THEN 1 ELSE 0
    /\ tool_pc' = "exited"
    /\ Unchanged({"tool_pc", "tool_exit"})

(***************************************************************************)
(* lint.py: rustfmt, then clippy.                                          *)
(***************************************************************************)
\* argparse: deny = "" stands for None
LintArgSets ==
    [fix : BOOLEAN, ci : BOOLEAN, clippy_only : BOOLEAN, fmt_only : BOOLEAN,
     deny : {"", "clippy::all"}, cargo_toml : BOOLEAN]

\* subprocess.run(cmd, cwd=project_dir), called without a timeout
ToolRuns == {"zero", "nonzero", "forever", "missing"}

\* mutant of rustfmt_cmd: check_only is not read
rustfmt_cmd_mut(fix, check_only) ==
    <<"cargo", "fmt">> \o (IF ~fix THEN <<"--check">> ELSE <<>>)
\* lines 25-28
rustfmt_cmd(fix, check_only) ==
    <<"cargo", "fmt">> \o (IF check_only \/ ~fix THEN <<"--check">> ELSE <<>>)
\* lines 46-56
clippy_cmd(fix, deny_level, allow_dirty) ==
    <<"cargo", "clippy">>
        \o (IF fix THEN <<"--fix">> \o (IF allow_dirty THEN <<"--allow-dirty", "--allow-staged">>
                                        ELSE <<>>)
            ELSE <<>>)
        \o <<"--">>
        \o (IF deny_level # "" THEN <<"-D", deny_level>> ELSE <<>>)
\* line 119
deny_level(a) == IF a.deny # "" THEN a.deny ELSE IF a.ci THEN "warnings" ELSE ""

\* lines 108-119
LintParse ==
    /\ script = "lint" /\ tool_pc = "parse"
    /\ IF ~tool_args.cargo_toml
       THEN tool_pc' = "exited" /\ tool_exit' = 1
       ELSE tool_pc' = "fmt" /\ UNCHANGED tool_exit
    /\ Unchanged({"tool_pc", "tool_exit"})

\* one tool was started: it blocks the run, cannot be started (FileNotFoundError,
\* which nothing catches: traceback and status 1), or returns its code
ToolReturns(tool, cmd, run, next) ==
    /\ invoked' = Append(invoked, [step |-> tool, cmd |-> cmd])
    /\ IF run = "forever"
       THEN tool_pc' = "blocked" /\ UNCHANGED <<tool_results, tool_exit>>
       ELSE IF run = "missing"
       THEN tool_pc' = "crashed" /\ tool_exit' = 1 /\ UNCHANGED tool_results
       ELSE /\ tool_results' = Append(tool_results,
                                      [step |-> tool, exit_code |-> returncode(run)])
            /\ IF tool = "rustfmt" /\ returncode(run) # 0 /\ tool_args.ci
               THEN tool_pc' = "exited" /\ tool_exit' = 1
               ELSE tool_pc' = next /\ UNCHANGED tool_exit

\* lines 122-130
LintRustfmt ==
    /\ script = "lint" /\ tool_pc = "fmt"
    /\ ~tool_args.clippy_only
    /\ \E run \in ToolRuns :
          ToolReturns("rustfmt", rustfmt_cmd(tool_args.fix, tool_args.ci), run, "clippy")
    /\ Unchanged({"tool_pc", "tool_results", "tool_exit", "invoked"})

LintSkipRustfmt ==
    /\ script = "lint" /\ tool_pc = "fmt"
    /\ tool_args.clippy_only
    /\ tool_pc' = "clippy"
    /\ Unchanged({"tool_pc"})

\* lines 133-142
LintClippy ==
    /\ script = "lint" /\ tool_pc = "clippy"
    /\ ~tool_args.fmt_only
    /\ \E run \in ToolRuns :
          ToolReturns("clippy",
                      clippy_cmd(tool_args.fix /\ ~tool_args.ci, deny_level(tool_args), TRUE),
                      run, "summary")
    /\ Unchanged({"tool_pc", "tool_results", "tool_exit", "invoked"})

LintSkipClippy ==
    /\ script = "lint" /\ tool_pc = "clippy"
    /\ tool_args.fmt_only
    /\ tool_pc' = "summary"
    /\ Unchanged({"tool_pc"})

\* lines 118, 126-127, 141-142: exit_code is 1 once a tool returned another code than 0
lint_exit_code(rs) == IF \E k \in DOMAIN rs : rs[k].exit_code # 0 THEN 1 ELSE 0

\* lines 144-153
LintSummary ==
    /\ script = "lint" /\ tool_pc = "summary"
    /\ tool_exit' = lint_exit_code(tool_results)
    /\ tool_pc' = "exited"
    /\ Unchanged({"tool_pc", "tool_exit"})

(***************************************************************************)
(* verify.py: the verification gate.  A command's output is abstracted to  *)
(* the texts the code tells apart: "" (nothing), "output" (what the tool   *)
(* printed), "leaks found", and run_command's own two messages.            *)
(***************************************************************************)
\* a --language value, or what detect_language finds; "" stands for None
VerifyArgSets == [language : {"rust", "python", "node", ""}]

CheckResult(name, passed, message, auto_fixable) ==
    [name |-> name, passed |-> passed, message |-> message, auto_fixable |-> auto_fixable]

\* mutant of add_check: the verdict follows the last check added
add_check_mut(rep, result) ==
    [rep EXCEPT !.checks = Append(@, result), !.passed = result.passed]
\* VerificationReport.add_check
add_check(rep, result) ==
    [rep EXCEPT !.checks = Append(@, result), !.passed = IF ~result.passed THEN FALSE ELSE @]

\* subprocess.run(..., timeout=300): (exit_code, stdout, stderr)
run_command(run) ==
    IF run = "zero" THEN [code |-> 0, stdout |-> "output", stderr |-> ""]
    ELSE IF run = "nonzero" THEN [code |-> 1, stdout |-> "", stderr |-> "output"]
    ELSE IF run = "leaks" THEN [code |-> 1, stdout |-> "", stderr |-> "leaks found"]
    ELSE IF run = "forever" THEN [code |-> 1, stdout |-> "", stderr |-> "Command timed out"]
    ELSE [code |-> 1, stdout |-> "", stderr |-> "Command not found"]

\* one command check of check_rust, check_python or check_node: the name, the two
\* messages, what the failure message quotes, and auto_fixable
Command(name, ok, fail, quotes, auto_fixable) ==
    [name |-> name, ok |-> ok, fail |-> fail, quotes |-> quotes, auto_fixable |-> auto_fixable]

check_rust ==
    << Command("tests", "All tests passed", "Test failures:", "stderr or stdout", FALSE),
       Command("clippy", "No clippy warnings", "Clippy issues:", "stderr or stdout", TRUE),
       Command("format", "Code formatted", "Formatting issues (run cargo fmt)", "", TRUE),
       Command("build", "Build succeeded", "Build failed:", "stderr", FALSE) >>
check_python ==
    << Command("tests", "All tests passed", "Test failures:", "stdout", FALSE),
       Command("lint", "No lint issues", "Lint issues:", "stdout", TRUE),
       Command("format", "Code formatted", "Formatting issues (run ruff format)", "", TRUE) >>
check_node ==
    << Command("tests", "All tests passed", "Test failures:", "stdout", FALSE),
       Command("lint", "No lint issues", "Lint issues:", "stdout", TRUE),
       Command("build", "Build succeeded", "Build failed:", "stderr", FALSE) >>

\* lines 335-343
language_checks(language) ==
    IF language = "rust" THEN check_rust
    ELSE IF language = "python" THEN check_python
    ELSE check_node

\* the text a failure message quotes
quoted(r, quotes) ==
    IF quotes = "stderr or stdout" THEN << IF r.stderr # "" THEN r.stderr ELSE r.stdout >>
    ELSE IF quotes = "stdout" THEN <<r.stdout>>
    ELSE IF quotes = "stderr" THEN <<r.stderr>>
    ELSE <<>>

\* one run_command call and the CheckResult made of it
command_check(c, run) ==
    LET r == run_command(run) IN
    CheckResult(c.name, r.code = 0,
                IF r.code = 0 THEN Msg(c.ok, <<>>) ELSE Msg(c.fail, quoted(r, c.quotes)),
                c.auto_fixable)

\* line 152: range(20)
MaxProbes == 20
\* mutant of keep_polling: the loop does not count
keep_polling_mut(n) == TRUE
\* the for loop of line 152 has a pass left after n passes
keep_polling(n) == n < MaxProbes

\* line 284
patterns == <<".env", "API_KEY=", "SECRET=", "PASSWORD=", "aws_secret">>

\* lines 323-332
VerifyParse ==
    /\ script = "verify" /\ tool_pc = "parse"
    /\ IF tool_args.language = ""
       THEN tool_pc' = "exited" /\ tool_exit' = 1
       ELSE tool_pc' = "checks" /\ UNCHANGED tool_exit
    /\ Unchanged({"tool_pc", "tool_exit"})

\* one command check of lines 82-118, 200-224 or 234-258, added to the report
\* (main() adds the results of a language in their order, lines 336-343)
VerifyRunCommand ==
    /\ script = "verify" /\ tool_pc = "checks"
    /\ LET checks == language_checks(tool_args.language)
           k == Len(report.checks) + 1
       IN \E run \in ToolRuns :
            /\ report' = add_check(report, command_check(checks[k], run))
            /\ timed_out' = IF run = "forever" THEN timed_out \cup {checks[k].name}
                            ELSE timed_out
            /\ tool_pc' = IF k < Len(checks) THEN "checks"
                          ELSE IF tool_args.language = "rust" THEN "popen" ELSE "secrets"
    /\ Unchanged({"tool_pc", "report", "timed_out"})

\* lines 133-151: Popen(["cargo", "run"]), which may raise
VerifyPopen ==
    /\ script = "verify" /\ tool_pc = "popen"
    /\ \/ /\ report' = add_check(report,
                          CheckResult("startup", FALSE, Msg("Failed to start app:", <<>>), FALSE))
          /\ tool_pc' = "secrets"
          /\ UNCHANGED <<app, started, probes>>
       \/ /\ app' = [state |-> "running", listening |-> FALSE]
          /\ started' = FALSE
          /\ probes' = 0
          /\ tool_pc' = "poll"
          /\ UNCHANGED report
    /\ Unchanged({"tool_pc", "report", "app", "started", "probes"})

\* what one probe finds: status 200, another status, or an exception of urlopen
\* with the process still running or not (proc.poll())
ProbeOutcomes == {"200", "other status", "raises", "raises, exited"}

\* lines 152-171: one pass of the polling loop
VerifyProbe ==
    /\ script = "verify" /\ tool_pc = "poll"
    /\ keep_polling(probes)
    /\ probes' = probes + 1
    /\ \E found \in ProbeOutcomes :
          IF found = "200"
          THEN started' = TRUE /\ tool_pc' = "terminate" /\ UNCHANGED <<report, app>>
          ELSE IF found = "raises, exited"
          THEN /\ app' = [state |-> "exited", listening |-> FALSE]
               /\ report' = add_check(report,
                               CheckResult("startup", FALSE,
                                           Msg("App exited before starting:", <<>>), FALSE))
               /\ tool_pc' = "secrets"
               /\ UNCHANGED started
          ELSE UNCHANGED <<started, tool_pc, report, app>>
    /\ Unchanged({"tool_pc", "report", "app", "started", "probes"})

\* the loop ran out of passes
VerifyPollEnd ==
    /\ script = "verify" /\ tool_pc = "poll"
    /\ ~keep_polling(probes)
    /\ tool_pc' = "terminate"
    /\ Unchanged({"tool_pc"})

\* lines 173-192: proc.terminate(), and proc.kill() when it has not ended in 3 s
VerifyTerminate ==
    /\ script = "verify" /\ tool_pc = "terminate"
    /\ app' = [state |-> "exited", listening |-> FALSE]
    /\ report' = add_check(report,
                    IF started
                    THEN CheckResult("startup", TRUE,
                                     Msg("App starts and /health responds OK", <<>>), FALSE)
                    ELSE CheckResult("startup", FALSE,
                                     Msg("App did not respond to /health within 10 seconds",
                                         <<>>), FALSE))
    /\ tool_pc' = "secrets"
    /\ Unchanged({"tool_pc", "report", "app"})

\* lines 266-284: gitleaks
VerifySecrets ==
    /\ script = "verify" /\ tool_pc = "secrets"
    /\ \E run \in ToolRuns \cup {"leaks"} :
          LET r == run_command(run) IN
          /\ timed_out' = IF run = "forever" THEN timed_out \cup {"secrets"} ELSE timed_out
          /\ IF r.code = 0
             THEN /\ report' = add_check(report,
                                  CheckResult("secrets", TRUE, Msg("No secrets detected", <<>>),
                                              FALSE))
                  /\ tool_pc' = "summary"
                  /\ UNCHANGED index
             ELSE IF r.stderr = "leaks found" \/ r.stdout = "leaks found"
             THEN /\ report' = add_check(report,
                                  CheckResult("secrets", FALSE,
                                              Msg("Potential secrets detected!", <<>>), FALSE))
                  /\ tool_pc' = "summary"
                  /\ UNCHANGED index
             ELSE /\ index' = 1
                  /\ tool_pc' = "grep"
                  /\ UNCHANGED report
    /\ Unchanged({"tool_pc", "report", "timed_out", "index"})

\* lines 285-302: one pass of the loop over `patterns`, and the result after the last
VerifyGrep ==
    /\ script = "verify" /\ tool_pc = "grep"
    /\ \E run \in ToolRuns :
          LET r == run_command(run) IN
          /\ timed_out' = IF run = "forever" THEN timed_out \cup {"secrets"} ELSE timed_out
          /\ IF r.code = 0 /\ r.stdout # ""
             THEN /\ report' = add_check(report,
                                  CheckResult("secrets", FALSE,
                                              Msg("Potential secret pattern found:",
                                                  <<patterns[index]>>), FALSE))
                  /\ tool_pc' = "summary"
                  /\ UNCHANGED index
             ELSE IF index < Len(patterns)
             THEN index' = index + 1 /\ UNCHANGED <<report, tool_pc>>
             ELSE /\ report' = add_check(report,
                                  CheckResult("secrets", TRUE,
                                              Msg("No obvious secrets detected", <<>>), FALSE))
                  /\ tool_pc' = "summary"
                  /\ UNCHANGED index
    /\ Unchanged({"tool_pc", "report", "timed_out", "index"})

\* lines 349-351
summary(rep) ==
    Msg("{}/{} checks passed",
        << <<Len(SelectSeq(rep.checks, LAMBDA c : c.passed)), Len(rep.checks)>> >>)

\* lines 348-373
VerifySummary ==
    /\ script = "verify" /\ tool_pc = "summary"
    /\ report' = [report EXCEPT !.summary = summary(report)]
    /\ tool_exit' = IF report.passed THEN 0 ELSE 1
    /\ tool_pc' = "exited"
    /\ Unchanged({"tool_pc", "report", "tool_exit"})

(***************************************************************************)
(* validate_project.py.  Its run_cmd (lines 26-41) is the run_cmd of       *)
(* validate_beads.py, with the timeout an argument; a command's output is  *)
(* again the set of the fragments the checks search for.                   *)
(***************************************************************************)
\* templates/*.html name at most this many distinct hx-get/post/delete endpoints
MaxEndpoints == 1
\* --port is an integer, --path a directory: neither is read by the model;
\* endpoints: the length of find_htmx_endpoints(project_path)
ProjectArgSets == [skip_runtime : BOOLEAN, endpoints : 0..MaxEndpoints]

\* "cargo build 2>&1", timeout 120
BuildRuns ==
    {Exited(c, Text("garbage", f), EmptyText) :
        c \in {0, 1}, f \in {{}, {"Finished"}, {"error"}, {"error", "Compiling"}}}
        \cup {TimedOut}
\* "curl -sf url", timeout 10: it succeeds only if the application listens on the port
CurlRuns(a) ==
    {Exited(1, EmptyText, EmptyText), TimedOut}
        \cup (IF a.state = "running" /\ a.listening
              THEN {Exited(0, Text("garbage", {}), EmptyText)} ELSE {})
\* "curl -sI .../static/styles.css | head -1", timeout 10
StaticRuns(a) ==
    {Exited(0, EmptyText, EmptyText), TimedOut}
        \cup (IF a.state = "running" /\ a.listening
              THEN {Exited(0, Text("garbage", f), EmptyText) : f \in {{}, {"200"}}} ELSE {})
\* "curl -s .../ | head -20", timeout 10
IndexRuns(a) ==
    {Exited(0, EmptyText, EmptyText), TimedOut}
        \cup (IF a.state = "running" /\ a.listening
              THEN {Exited(0, Text("garbage", f), EmptyText) :
                        f \in {{}, {"<html"}, {"<!doctype"}}}
              ELSE {})
\* "lsof -ti:port | xargs kill -9 2>/dev/null", timeout 30
KillRuns == {Exited(0, EmptyText, EmptyText), Exited(1, EmptyText, EmptyText), TimedOut}

\* Cargo.toml and static/styles.css, as what the checks read of them
NoFile(fields) == [f \in fields \cup {"exists", "readable"} |-> FALSE]
CargoTomls ==
    {NoFile({"tower_http", "fs", "fullstack"})}
        \cup [exists : {TRUE}, readable : {FALSE}, tower_http : {FALSE}, fs : {FALSE},
              fullstack : {FALSE}]
        \cup [exists : {TRUE}, readable : {TRUE}, tower_http : BOOLEAN, fs : BOOLEAN,
              fullstack : BOOLEAN]
\* fill_both: one of "animation-fill-mode: both", "fill-mode: both", "ease both"
StyleSheets ==
    {NoFile({"opacity_0", "fill_both"})}
        \cup [exists : {TRUE}, readable : {FALSE}, opacity_0 : {FALSE}, fill_both : {FALSE}]
        \cup [exists : {TRUE}, readable : {TRUE}, opacity_0 : BOOLEAN, fill_both : BOOLEAN]

check_build(proc) ==
    LET r == run_cmd(proc)
        output == Concat(r.stdout, r.stderr)
    IN  IF Contains(output, "error") /\ ~Contains(output, "Compiling")
            THEN Returns(FALSE, Msg("Build failed: {}", <<>>))
        ELSE IF Contains(output, "Finished") \/ r.code = 0
            THEN Returns(TRUE, Msg("Build succeeds", <<>>))
        ELSE Returns(FALSE, Msg("Build status unclear: {}", <<>>))

check_endpoint(proc) ==
    LET r == run_cmd(proc) IN
    IF r.code = 0 THEN Returns(TRUE, Msg("{} responds", <<>>))
    ELSE Returns(FALSE, Msg("{} failed (code {})", <<r.code>>))

check_static_files(proc) ==
    LET r == run_cmd(proc) IN
    IF Contains(r.stdout, "200") THEN Returns(TRUE, Msg("Static files served", <<>>))
    ELSE Returns(FALSE, Msg("Static files not served: {}", <<>>))

check_html_response(proc) ==
    LET r == run_cmd(proc) IN
    IF Contains(r.stdout, "<html") \/ Contains(r.stdout, "<!doctype")
        THEN Returns(TRUE, Msg("Index returns HTML", <<>>))
    ELSE Returns(FALSE, Msg("Index not HTML: {}", <<>>))

check_css_animations(css_file) ==
    IF ~css_file.exists THEN Returns(TRUE, Msg("No CSS file (API only?)", <<>>))
    ELSE IF ~css_file.readable THEN Returns(FALSE, Msg("CSS check error: {}", <<>>))
    ELSE IF css_file.opacity_0 /\ ~css_file.fill_both
        THEN Returns(FALSE, Msg("CSS has opacity:0 without animation-fill-mode:both", <<>>))
    ELSE Returns(TRUE, Msg("CSS animations safe", <<>>))

check_tower_http(cargo_toml) ==
    IF ~cargo_toml.exists THEN Returns(TRUE, Msg("Not a Rust project", <<>>))
    ELSE IF ~cargo_toml.readable THEN Returns(FALSE, Msg("Cargo.toml check error: {}", <<>>))
    ELSE IF cargo_toml.tower_http
        THEN IF cargo_toml.fs THEN Returns(TRUE, Msg("tower-http has fs feature", <<>>))
             ELSE Returns(FALSE, Msg("tower-http missing fs feature", <<>>))
    ELSE IF cargo_toml.fullstack
        THEN Returns(FALSE, Msg("Fullstack project missing tower-http with fs feature", <<>>))
    ELSE Returns(TRUE, Msg("API only (no tower-http needed)", <<>>))

\* results.append((name, passed, msg)), and the history of the timeouts
ProjectResult(name, proc, res, next) ==
    /\ tool_results' = Append(tool_results, Result(name, res))
    /\ timed_out' = IF proc.kind = "timeout" THEN timed_out \cup {name} ELSE timed_out
    /\ tool_pc' = next

\* lines 182-190
ProjectParse ==
    /\ script = "validate_project" /\ tool_pc = "parse"
    /\ tool_pc' = "build"
    /\ Unchanged({"tool_pc"})

\* lines 195-197
ProjectBuild ==
    /\ script = "validate_project" /\ tool_pc = "build"
    /\ \E proc \in BuildRuns : ProjectResult("Build", proc, check_build(proc), "tower")
    /\ Unchanged({"tool_pc", "tool_results", "timed_out"})

\* lines 199-201
ProjectTowerHttp ==
    /\ script = "validate_project" /\ tool_pc = "tower"
    /\ \E cargo_toml \in CargoTomls :
          ProjectResult("Dependencies", Exited(0, EmptyText, EmptyText),
                        check_tower_http(cargo_toml), "css")
    /\ Unchanged({"tool_pc", "tool_results", "timed_out"})

\* lines 203-212
ProjectCss ==
    /\ script = "validate_project" /\ tool_pc = "css"
    /\ \E css_file \in StyleSheets :
          LET res == check_css_animations(css_file) IN
          /\ ProjectResult("CSS Safety", Exited(0, EmptyText, EmptyText), res,
                           IF tool_args.skip_runtime THEN "summary" ELSE "start")
          /\ warnings' = IF ~res.passed THEN Append(warnings, res.msg) ELSE warnings
    /\ Unchanged({"tool_pc", "tool_results", "timed_out", "warnings"})

\* what start_app finds five seconds after Popen: the process has exited, it runs and
\* listens on the port, or it runs and does not (it still builds, or uses another port)
StartedApps ==
    {[state |-> "exited", listening |-> FALSE]}
        \cup [state : {"running"}, listening : BOOLEAN]

\* lines 216-218 and 248-250: start_app (lines 148-169)
ProjectStartApp ==
    /\ script = "validate_project" /\ tool_pc = "start"
    /\ \E a \in StartedApps :
          /\ app' = a
          /\ IF a.state = "running"
             THEN tool_pc' = "health" /\ UNCHANGED tool_results
             ELSE /\ tool_results' = Append(tool_results,
                                            Result("App Start",
                                                   Returns(FALSE, Msg("Failed to start", <<>>))))
                  /\ tool_pc' = "summary"
    /\ Unchanged({"tool_pc", "tool_results", "app"})

\* while the checks run, the application comes up, or ends
AppTurns ==
    /\ script = "validate_project"
    /\ tool_pc \in {"health", "static", "index", "htmx"}
    /\ app.state = "running"
    /\ \/ ~app.listening /\ app' = [app EXCEPT !.listening = TRUE]
       \/ app' = [state |-> "exited", listening |-> FALSE]
    /\ Unchanged({"app"})

\* lines 221-223
ProjectHealth ==
    /\ script = "validate_project" /\ tool_pc = "health"
    /\ \E proc \in CurlRuns(app) : ProjectResult("Health", proc, check_endpoint(proc), "static")
    /\ Unchanged({"tool_pc", "tool_results", "timed_out"})

\* lines 226-228
ProjectStaticFiles ==
    /\ script = "validate_project" /\ tool_pc = "static"
    /\ \E proc \in StaticRuns(app) :
          ProjectResult("Static Files", proc, check_static_files(proc), "index")
    /\ Unchanged({"tool_pc", "tool_results", "timed_out"})

\* lines 231-236
ProjectIndex ==
    /\ script = "validate_project" /\ tool_pc = "index"
    /\ \E proc \in IndexRuns(app) :
          ProjectResult("Index HTML", proc, check_html_response(proc),
                        IF tool_args.endpoints = 0 THEN "stop" ELSE "htmx")
    /\ index' = 1
    /\ Unchanged({"tool_pc", "tool_results", "timed_out", "index"})

\* lines 237-243: one pass of the loop over the endpoints
ProjectHtmx ==
    /\ script = "validate_project" /\ tool_pc = "htmx"
    /\ \E proc \in CurlRuns(app) :
          /\ warnings' = IF ~check_endpoint(proc).passed
                         THEN Append(warnings, Msg("Endpoint {} not implemented", <<index>>))
                         ELSE warnings
          /\ timed_out' = IF proc.kind = "timeout" THEN timed_out \cup {"HTMX"} ELSE timed_out
    /\ IF index < tool_args.endpoints
       THEN index' = index + 1 /\ UNCHANGED tool_pc
       ELSE tool_pc' = "stop" /\ UNCHANGED index
    /\ Unchanged({"tool_pc", "warnings", "timed_out", "index"})

\* lines 172-174: kill -9 reaches the processes lsof finds listening on the port
stop_app(proc, a) ==
    IF run_cmd(proc).code # -1 /\ a.state = "running" /\ a.listening
    THEN [state |-> "exited", listening |-> FALSE]
    ELSE a

\* lines 245-247: finally
ProjectStopApp ==
    /\ script = "validate_project" /\ tool_pc = "stop"
    /\ \E proc \in KillRuns : app' = stop_app(proc, app)
    /\ tool_pc' = "summary"
    /\ Unchanged({"tool_pc", "app"})

\* lines 253-271
ProjectSummary ==
    /\ script = "validate_project" /\ tool_pc = "summary"
    /\ tool_exit' = IF failed_results(tool_results) # <<>> THEN 1 ELSE 0
    /\ tool_pc' = "exited"
    /\ Unchanged({"tool_pc", "tool_exit"})

(***************************************************************************)
(* security_scan.py.  A scanned file is the set of PATTERNS categories one *)
(* of whose patterns one of its lines matches; the file, line and snippet  *)
(* of an issue are not read by the exit decision and are left out.         *)
(***************************************************************************)
\* the files scan_directory finds
MaxFiles == 2
\* the categories one file matches
MaxMatches == 1

\* the keys of PATTERNS, in their order
Categories ==
    <<"sql_injection", "hardcoded_secrets", "unsafe_eval", "unsafe_deserialization",
      "command_injection", "insecure_http", "missing_input_validation", "debug_enabled">>
\* PATTERNS[category]["severity"]
severity_of(category) ==
    IF category \in {"sql_injection", "hardcoded_secrets"} THEN "critical"
    ELSE IF category \in {"unsafe_eval", "unsafe_deserialization", "command_injection"}
        THEN "high"
    ELSE "medium"
\* choices of --fail-on
Levels == {"critical", "high", "medium", "low"}
ScanArgSets == [fail_on : Levels]
\* what a file matches
FileMatches == {m \in SUBSET Range(Categories) : Cardinality(m) <= MaxMatches}

\* scan_file: one issue per matched category, in the order of PATTERNS
scan_file(matched) ==
    LET found == SelectSeq(Categories, LAMBDA c : c \in matched)
    IN [k \in DOMAIN found |-> [severity |-> severity_of(found[k]), category |-> found[k]]]

\* the table of lines 238-243
fail_levels(level) ==
    IF level = "critical" THEN {"critical"}
    ELSE IF level = "high" THEN {"critical", "high"}
    ELSE IF level = "medium" THEN {"critical", "high", "medium"}
    ELSE {"critical", "high", "medium", "low"}

\* mutant of should_fail: only the issues of exactly the --fail-on level count
should_fail_mut(issues, level) == \E k \in DOMAIN issues : issues[k].severity = level
\* lines 245-248
should_fail(issues, level) == \E k \in DOMAIN issues : issues[k].severity \in fail_levels(level)

\* lines 198-207
ScanParse ==
    /\ script = "security_scan" /\ tool_pc = "parse"
    /\ tool_pc' = "scan"
    /\ Unchanged({"tool_pc"})

\* lines 188-194: the next file with one of the extensions, outside the excluded
\* directories: files_scanned += 1 and its issues are added
ScanFile ==
    /\ script = "security_scan" /\ tool_pc = "scan"
    /\ index < MaxFiles
    /\ \E matched \in FileMatches : tool_results' = tool_results \o scan_file(matched)
    /\ index' = index + 1
    /\ Unchanged({"tool_results", "index"})

\* lines 209-250: the directory holds no further file; the report is printed and
\* the exit status decided
ScanSummary ==
    /\ script = "security_scan" /\ tool_pc = "scan"
    /\ tool_exit' = IF should_fail(tool_results, tool_args.fail_on) THEN 1 ELSE 0
    /\ tool_pc' = "exited"
    /\ Unchanged({"tool_pc", "tool_exit"})

(***************************************************************************)
(* validate_prd.py.  The document is what validate_prd reads of it: can it *)
(* be read, has it 50 characters, its PRD type, the required sections it   *)
(* lacks and the warnings its content gives rise to.                       *)
(***************************************************************************)
\* required sections one document lacks
MaxMissing == 2
\* warnings one document gives rise to
MaxWarned == 2

\* the first variant of each entry of FULL_REQUIRED, in order
FULL_REQUIRED ==
    <<"Problem", "User", "Core Feature", "Success Metric", "Product Type", "Non-Goals",
      "Technical Constraints", "Dependencies">>
\* lines 235-240: MINIMAL_REQUIRED and STANDARD_REQUIRED are its first 4 and 6 entries
required_sections(prd_type) ==
    IF prd_type = "full" THEN FULL_REQUIRED
    ELSE IF prd_type = "standard" THEN SubSeq(FULL_REQUIRED, 1, 6)
    ELSE SubSeq(FULL_REQUIRED, 1, 4)
\* the warnings of lines 254-286, in the order validate_prd adds them
WarningKinds ==
    <<"Section is empty", "No features found", "Consider adding section",
      "Full PRD should have acceptance criteria", "Product Type not recognized",
      "Features section should have checkboxes">>

PrdTypes == {"minimal", "standard", "full"}
\* a document that cannot be read, one that is too short, and the others
Documents ==
    {[readable |-> FALSE, short |-> FALSE, prd_type |-> "unknown", missing |-> {},
      warns |-> {}],
     [readable |-> TRUE, short |-> TRUE, prd_type |-> "unknown", missing |-> {},
      warns |-> {}]}
        \cup UNION {[readable : {TRUE}, short : {FALSE}, prd_type : {t},
                     missing : {s \in SUBSET Range(required_sections(t)) :
                                   Cardinality(s) <= MaxMissing},
                     warns : {w \in SUBSET Range(WarningKinds) : Cardinality(w) <= MaxWarned}] :
                        t \in PrdTypes}
\* --strict, whether find_prd finds a file, and the file
PrdArgSets ==
    [strict : BOOLEAN, found : {TRUE}, doc : Documents]
        \cup [strict : BOOLEAN, found : {FALSE}, doc : {CHOOSE d \in Documents : ~d.readable}]

\* mutant of add_error: the message is recorded, `valid` is left as it is
add_error_mut(res, msg) == [res EXCEPT !.errors = Append(@, msg)]
\* ValidationResult.add_error
add_error(res, msg) == [res EXCEPT !.errors = Append(@, msg), !.valid = FALSE]
\* ValidationResult.add_warning
add_warning(res, msg) == [res EXCEPT !.warnings = Append(@, msg)]

RECURSIVE add_errors(_, _, _)
\* add_error for each message of msgs, from the k-th
add_errors(res, msgs, k) ==
    IF k > Len(msgs) THEN res ELSE add_errors(add_error(res, msgs[k]), msgs, k + 1)
RECURSIVE add_warnings(_, _, _)
\* add_warning for each message of msgs, from the k-th
add_warnings(res, msgs, k) ==
    IF k > Len(msgs) THEN res ELSE add_warnings(add_warning(res, msgs[k]), msgs, k + 1)

\* lines 301-311
PrdParse ==
    /\ script = "validate_prd" /\ tool_pc = "parse"
    /\ IF ~tool_args.found
       THEN tool_pc' = "exited" /\ tool_exit' = 1
       ELSE tool_pc' = "read" /\ UNCHANGED tool_exit
    /\ Unchanged({"tool_pc", "tool_exit"})

\* lines 213-224: the two early returns of validate_prd
PrdRead ==
    /\ script = "validate_prd" /\ tool_pc = "read"
    /\ IF ~tool_args.doc.readable
       THEN /\ validation' = add_error(validation, Msg("Cannot read file: {}", <<>>))
            /\ tool_pc' = "strict"
       ELSE IF tool_args.doc.short
       THEN /\ validation' = add_error(validation, Msg("PRD is too short (< 50 characters)", <<>>))
            /\ tool_pc' = "strict"
       ELSE /\ tool_pc' = "required"
            /\ UNCHANGED validation
    /\ Unchanged({"tool_pc", "validation"})

\* lines 243-251: one error for each required section the document lacks
PrdRequired ==
    /\ script = "validate_prd" /\ tool_pc = "required"
    /\ LET lacking == SelectSeq(required_sections(tool_args.doc.prd_type),
                                LAMBDA s : s \in tool_args.doc.missing)
       IN validation' = add_errors(validation,
                                   [k \in DOMAIN lacking |->
                                       Msg("Missing required section: {}", <<lacking[k]>>)], 1)
    /\ tool_pc' = "warnings"
    /\ Unchanged({"tool_pc", "validation"})

\* lines 254-286: the warnings
PrdWarnings ==
    /\ script = "validate_prd" /\ tool_pc = "warnings"
    /\ LET raised == SelectSeq(WarningKinds, LAMBDA w : w \in tool_args.doc.warns)
       IN validation' = add_warnings(validation,
                                     [k \in DOMAIN raised |-> Msg(raised[k], <<>>)], 1)
    /\ tool_pc' = "strict"
    /\ Unchanged({"tool_pc", "validation"})

\* line 318: f"(strict) {warning}" for each warning
strict_errors(msgs) == [k \in DOMAIN msgs |-> Msg("(strict) {}", <<msgs[k].text>>)]

\* lines 316-319: in strict mode the warnings become errors
PrdStrict ==
    /\ script = "validate_prd" /\ tool_pc = "strict"
    /\ validation' = IF tool_args.strict /\ validation.warnings # <<>>
                       THEN [add_errors(validation, strict_errors(validation.warnings), 1)
                                EXCEPT !.warnings = <<>>]
                       ELSE validation
    /\ tool_pc' = "summary"
    /\ Unchanged({"tool_pc", "validation"})

\* lines 321-348
PrdSummary ==
    /\ script = "validate_prd" /\ tool_pc = "summary"
    /\ tool_exit' = IF validation.valid THEN 0 ELSE 1
    /\ tool_pc' = "exited"
    /\ Unchanged({"tool_pc", "tool_exit"})

(***************************************************************************)
(* tdd_gate.py: the PreToolUse hook.  The payload on stdin is text that is *)
(* not JSON, or a JSON value; of a value the hook reads its kind, of an    *)
(* object the keys tool_name and tool_input, of an object tool_input the   *)
(* keys subagent_type and prompt.  A key is absent, or holds a string, or  *)
(* a value of another kind; a prompt string is what it matches.            *)
(***************************************************************************)
\* "tool_name": absent, the Task tool, another tool, or a value that is no string
ToolNames == {"absent", "Task", "Bash", "not_a_string"}
\* "subagent_type": absent, a string, null (or a number), or a list holding the name
SubagentTypes ==
    {"absent", "rust-developer", "vibe-coder:rust-developer", "tdd-test-writer", "null",
     "list_of_rust-developer"}
\* "prompt": absent, a string matching a TDD indicator, a creation indicator, both or
\* neither, or a value that is no string
Prompts == {"absent", "plain", "tdd", "creation", "tdd_and_creation", "not_a_string"}
\* "tool_input": absent, a value that is no object, or an object
ToolInputs ==
    {[kind |-> "absent", subagent_type |-> "absent", prompt |-> "absent"],
     [kind |-> "not_an_object", subagent_type |-> "absent", prompt |-> "absent"]}
        \cup [kind : {"object"}, subagent_type : SubagentTypes, prompt : Prompts]
Payloads_stdin ==
    {[kind |-> k, tool_name |-> "absent",
      tool_input |-> [kind |-> "absent", subagent_type |-> "absent", prompt |-> "absent"]] :
         k \in {"not_json", "not_an_object"}}
        \cup [kind : {"object"}, tool_name : ToolNames, tool_input : ToolInputs]
GateArgSets == [stdin : Payloads_stdin]

\* the decision printed at lines 86-98
Deny == [permissionDecision |-> "deny"]

\* tool_input.get("subagent_type", ""): what `agent in subagent_type` (line 49) makes
\* of it; "raises" is the TypeError of a value that is not iterable
dev_agent(subagent_type) ==
    IF subagent_type = "null" THEN "raises"
    ELSE IF subagent_type \in {"rust-developer", "vibe-coder:rust-developer",
                               "list_of_rust-developer"} THEN "yes"
    ELSE "no"
\* lines 53-69
tdd_indicator(prompt) == prompt \in {"tdd", "tdd_and_creation"}
\* lines 72-83
creation_indicator(prompt) == prompt \in {"creation", "tdd_and_creation"}

\* the hook ends: sys.exit(status), or an exception nothing catches (the interpreter
\* prints the traceback and ends with status 1)
GateExit(status) == tool_pc' = "exited" /\ tool_exit' = status
GateRaise == tool_pc' = "crashed" /\ tool_exit' = 1

\* lines 31-35: json.load(sys.stdin)
GateLoad ==
    /\ script = "tdd_gate" /\ tool_pc = "parse"
    /\ IF tool_args.stdin.kind = "not_json"
       THEN GateExit(0)
       ELSE tool_pc' = "tool" /\ UNCHANGED tool_exit
    /\ Unchanged({"tool_pc", "tool_exit"})

\* lines 37-42: data.get(...) raises AttributeError unless data is an object
GateTool ==
    /\ script = "tdd_gate" /\ tool_pc = "tool"
    /\ IF tool_args.stdin.kind # "object"
       THEN GateRaise
       ELSE IF tool_args.stdin.tool_name # "Task"
       THEN GateExit(0)
       ELSE tool_pc' = "agent" /\ UNCHANGED tool_exit
    /\ Unchanged({"tool_pc", "tool_exit"})

\* lines 44-50: tool_input.get(...) raises AttributeError unless tool_input is an
\* object (absent: the default {})
GateAgent ==
    /\ script = "tdd_gate" /\ tool_pc = "agent"
    /\ IF tool_args.stdin.tool_input.kind = "not_an_object"
       THEN GateRaise
       ELSE IF dev_agent(tool_args.stdin.tool_input.subagent_type) = "raises"
       THEN GateRaise
       ELSE IF dev_agent(tool_args.stdin.tool_input.subagent_type) = "no"
       THEN GateExit(0)
       ELSE tool_pc' = "prompt" /\ UNCHANGED tool_exit
    /\ Unchanged({"tool_pc", "tool_exit"})

\* lines 65-99: prompt.lower() raises AttributeError unless the prompt is a string
gate_decision(prompt) ==
    IF prompt = "not_a_string" THEN "raises"
    ELSE IF tdd_indicator(prompt) THEN "allow"
    ELSE IF creation_indicator(prompt) THEN "allow"
    ELSE "deny"

\* lines 65-99
GatePrompt ==
    /\ script = "tdd_gate" /\ tool_pc = "prompt"
    /\ LET decision == gate_decision(tool_args.stdin.tool_input.prompt) IN
       IF decision = "raises" THEN GateRaise /\ UNCHANGED tool_results
       ELSE IF decision = "allow" THEN GateExit(0) /\ UNCHANGED tool_results
       ELSE GateExit(2) /\ tool_results' = Append(tool_results, Deny)
    /\ Unchanged({"tool_pc", "tool_exit", "tool_results"})

(***************************************************************************)
(* One run of one of the tool scripts.                                     *)
(***************************************************************************)
ToolsInit ==
    \/ ToolStart("check", CheckArgSets)
    \/ ToolStart("lint", LintArgSets)
    \/ ToolStart("verify", VerifyArgSets)
    \/ ToolStart("validate_project", ProjectArgSets)
    \/ ToolStart("security_scan", ScanArgSets)
    \/ ToolStart("validate_prd", PrdArgSets)
    \/ ToolStart("tdd_gate", GateArgSets)

ToolsNext ==
    \/ CheckParse
    \/ CheckRunStep
    \/ CheckSummary
    \/ LintParse
    \/ LintRustfmt
    \/ LintSkipRustfmt
    \/ LintClippy
    \/ LintSkipClippy
    \/ LintSummary
    \/ VerifyParse
    \/ VerifyRunCommand
    \/ VerifyPopen
    \/ VerifyProbe
    \/ VerifyPollEnd
    \/ VerifyTerminate
    \/ VerifySecrets
    \/ VerifyGrep
    \/ VerifySummary
    \/ ProjectParse
    \/ ProjectBuild
    \/ ProjectTowerHttp
    \/ ProjectCss
    \/ ProjectStartApp
    \/ AppTurns
    \/ ProjectHealth
    \/ ProjectStaticFiles
    \/ ProjectIndex
    \/ ProjectHtmx
    \/ ProjectStopApp
    \/ ProjectSummary
    \/ ScanParse
    \/ ScanFile
    \/ ScanSummary
    \/ PrdParse
    \/ PrdRead
    \/ PrdRequired
    \/ PrdWarnings
    \/ PrdStrict
    \/ PrdSummary
    \/ GateLoad
    \/ GateTool
    \/ GateAgent
    \/ GatePrompt

SpecTools == ToolsInit /\ [][ToolsNext]_vars

(***************************************************************************)
(* Properties of the beads validator.                                      *)
(***************************************************************************)
Terminated == pc \in {"exited", "crashed"}
Names(rs) == [k \in DOMAIN rs |-> rs[k].name]
FailedNames(rs) == Names(SelectSeq(rs, LAMBDA r : ~r.passed))

\* the checks a command line selects, in source order (before or after lines 177-180)
SelectedChecks(a) ==
    (IF (a.all \/ a.check_created) /\ a.prd THEN <<"PRD Mapping">> ELSE <<>>)
        \o (IF a.all \/ a.check_deps THEN <<"Dependencies", "Circular Deps">> ELSE <<>>)
        \o (IF a.all \/ a.check_ready THEN <<"Ready Queue">> ELSE <<>>)
        \o <<"Priorities">>

\* every dependency id of the list is the id of an issue of the list
ReferentialIntegrity(issues) ==
    \A i \in DOMAIN issues : \A d \in DOMAIN issues[i].dependencies :
        \E j \in DOMAIN issues : issues[j].id = issues[i].dependencies[d]

\* the dependency relation of the list has a directed cycle
DependsOn(issues, a, b) ==
    \E i \in DOMAIN issues :
        issues[i].id = a /\ \E d \in DOMAIN issues[i].dependencies : issues[i].dependencies[d] = b
HasCycle(issues) ==
    \E n \in 1..Len(issues) : \E p \in [1..n -> issue_ids(issues)] :
        \A k \in 1..n : DependsOn(issues, p[k], p[(k % n) + 1])

\* section 4.4: ready(issue)
Ready(issues, i) ==
    /\ issues[i].status # "closed"
    /\ \A d \in DOMAIN issues[i].dependencies :
          \E j \in DOMAIN issues :
              issues[j].id = issues[i].dependencies[d] /\ issues[j].status = "closed"
\* the verdict that predicate gives: a deadlock is open issues none of which is ready
ReadyVerdict(issues) ==
    (\E i \in DOMAIN issues : issues[i].status # "closed")
        => \E i \in DOMAIN issues : Ready(issues, i)

C2_NeverPassesOnCycle ==
    \A k \in DOMAIN results :
        (results[k].name = "Circular Deps" /\ HasCycle(tracker)) => ~results[k].passed

\* C3: the Ready Queue verdict is the one the readiness predicate gives over the
\* issue set: the check passes only if no issue is open or some issue is ready (an
\* issue with a dependency that is not closed never counts as ready).
C3_ReadyVerdictFromPredicate ==
    \A k \in DOMAIN results :
        (results[k].name = "Ready Queue" /\ ~changed /\ results[k].passed)
            => ReadyVerdict(tracker)

C5_CoverageShortfallNotFatal ==
    (pc = "exited" /\ FailedNames(results) = <<"PRD Mapping">>) => exit_status = 0

C7_SameSnapshot ==
    [][/\ pc' # pc => tracker' = tracker
       /\ \A i, j \in DOMAIN loads' :
             (loads'[i].answered /\ loads'[j].answered)
                 => loads'[i].issues = loads'[j].issues]_vars

\* C8: when no query of a run got an issue list from the tracker, every query
\* yielded the empty list, and every selected check appended its one result before
\* the exit status was computed.
C8_UnavailableTrackerSoftFailure ==
    (Terminated /\ \A l \in DOMAIN loads : ~loads[l].answered)
        => /\ \A l \in DOMAIN loads : loads[l].issues = PyList(<<>>)
           /\ pc = "exited"
           /\ Names(results) = SelectedChecks(args)

\* what the report of a run with a clean graph never holds: a result that did not
\* pass, or one that says that something was not checked
Flagged(r) ==
    \/ ~r.passed
    \/ r.msg.text \in {"bd doctor passed (or not available)", "Could not parse PRD features"}
\* C9: a run with a tracker query that failed never reports like a run on a clean
\* graph: its report holds a warning, a failure or a not-checked result.  (A
\* diagnostic that failed always leaves one of these: lines 118-124.)
C9_UnavailabilityReported ==
    (pc = "exited" /\ \E l \in DOMAIN loads : ~loads[l].answered)
        => \E k \in DOMAIN results : Flagged(results[k])

\* C10: every selected check appends exactly one result, in the order PRD Mapping,
\* Dependencies, Circular Deps, Ready Queue, Priorities, whatever the earlier
\* checks did: a run never ends with fewer.
C10_ChecksIsolated ==
    /\ \E n \in 0..Len(SelectedChecks(args)) : Names(results) = SubSeq(SelectedChecks(args), 1, n)
    /\ Terminated => Names(results) = SelectedChecks(args)

(***************************************************************************)
(* Properties of the scripts that run external commands.                   *)
(***************************************************************************)
\* the tools a lint.py command line selects, in source order
SelectedTools(a) ==
    (IF a.clippy_only THEN <<>> ELSE <<"rustfmt">>)
        \o (IF a.fmt_only THEN <<>> ELSE <<"clippy">>)
\* the checks verify.py makes for a language, in source order
VerifyChecks(language) ==
    [k \in DOMAIN language_checks(language) |-> language_checks(language)[k].name]
        \o (IF language = "rust" THEN <<"startup">> ELSE <<>>)
        \o <<"secrets">>
CheckNames(rep) == [k \in DOMAIN rep.checks |-> rep.checks[k].name]
\* rs ends with the first result that has a non-zero code, or has none
EndsAtFirstFailure(rs) ==
    \A k \in DOMAIN rs : rs[k].exit_code # 0 => k = Len(rs)

\* C11 as claimed: a failed check cancels no sibling unless the caller asked for
\* fail-fast: without such a request (check.py has no option that asks for it;
\* lint.py without --ci) a run that reaches its end has executed every selected
\* step, tool or check.
C11_FailureCancelsNoSibling ==
    /\ (script = "check" /\ tool_pc = "exited" /\ tool_args.cargo_toml)
          => Executed(tool_results) = steps_to_run(tool_args)
    /\ (script = "lint" /\ tool_pc = "exited" /\ tool_args.cargo_toml /\ ~tool_args.ci)
          => Executed(tool_results) = SelectedTools(tool_args)
    /\ (script = "verify" /\ tool_pc = "exited" /\ tool_args.language # "")
          => CheckNames(report) = VerifyChecks(tool_args.language)
\* C11 as amended: verify.py makes every check of the language whatever failed before,
\* and lint.py runs every selected tool unless --ci is given and rustfmt failed (then
\* rustfmt was the last); check.py stops after the first step that returns non-zero,
\* and executes every selected step only when --continue is given.
C11_SiblingsRunUnlessStopped ==
    /\ (script = "check" /\ tool_pc = "exited" /\ tool_args.cargo_toml)
          => LET steps == steps_to_run(tool_args) IN
             /\ \E n \in 0..Len(steps) : Executed(tool_results) = SubSeq(steps, 1, n)
             /\ tool_args.continue_on_fail => Executed(tool_results) = steps
             /\ ~tool_args.continue_on_fail
                   => /\ EndsAtFirstFailure(tool_results)
                      /\ failed_steps(tool_results) = 0 => Executed(tool_results) = steps
    /\ (script = "lint" /\ tool_pc = "exited" /\ tool_args.cargo_toml)
          => IF tool_args.ci /\ tool_results # <<>> /\ tool_results[1].step = "rustfmt"
                            /\ tool_results[1].exit_code # 0
             THEN Executed(tool_results) = <<"rustfmt">>
             ELSE Executed(tool_results) = SelectedTools(tool_args)
    /\ (script = "verify" /\ tool_pc = "exited" /\ tool_args.language # "")
          => CheckNames(report) = VerifyChecks(tool_args.language)
\* check.py --continue went on after a failed step
C11_Witness ==
    /\ script = "check" /\ tool_pc = "exited" /\ tool_args.continue_on_fail
    /\ Len(tool_results) >= 2 /\ tool_results[1].exit_code # 0

\* C12: when a run of verify.py or validate_project.py has ended, the application
\* process it started to probe the health endpoint no longer runs, on every path
\* (health responded, never responded, the application ended early, a probe raised).
C12_NoChildLeftRunning ==
    (script \in {"verify", "validate_project"} /\ tool_pc = "exited")
        => app.state # "running"

\* C13: every command a check starts has a bounded timeout, so no run of check.py,
\* verify.py or validate_project.py waits for a command for ever or ends in a
\* traceback; and a check one of whose commands ran into its timeout has a result
\* that did not pass.
C13_TimeoutIsThatChecksFailure ==
    /\ script \in {"check", "verify", "validate_project"}
          => tool_pc \notin {"blocked", "crashed"}
    /\ script = "verify"
          => \A k \in DOMAIN report.checks :
                report.checks[k].name \in timed_out => ~report.checks[k].passed
    /\ script = "validate_project"
          => \A k \in DOMAIN tool_results :
                tool_results[k].name \in timed_out => ~tool_results[k].passed

\* C14: check_rust_startup makes at most 20 health probes and then stops polling; a
\* poll in which no probe returned status 200 ends with exactly one 'startup' result,
\* which failed.  (The interval, time.sleep(0.5) before each probe, is not modelled.)
C14_PollingBounded ==
    script = "verify"
        => /\ probes <= 20
           /\ tool_pc = "poll" => (probes < 20 <=> ENABLED VerifyProbe)
           /\ \A k \in DOMAIN report.checks :
                 (report.checks[k].name = "startup" /\ ~started) => ~report.checks[k].passed
           /\ (tool_args.language = "rust" /\ tool_pc \in {"secrets", "grep", "summary", "exited"})
                 => Len(SelectSeq(report.checks, LAMBDA c : c.name = "startup")) = 1
\* all 20 probes were made, none returned 200, and the startup check failed
C14_Witness ==
    /\ script = "verify" /\ probes = 20 /\ ~started
    /\ \E k \in DOMAIN report.checks :
          /\ report.checks[k].name = "startup" /\ ~report.checks[k].passed
          /\ report.checks[k].message.text = "App did not respond to /health within 10 seconds"

(***************************************************************************)
(* Properties of the beads checks on the wider inputs.                     *)
(***************************************************************************)
\* the (issue, dependency) pairs of a list whose dependency id no issue of the list has
DanglingPairs(issues) ==
    UNION {{<<issues[i].id, issues[i].dependencies[d]>> :
                d \in {x \in DOMAIN issues[i].dependencies :
                          \A j \in DOMAIN issues : issues[j].id # issues[i].dependencies[x]}} :
               i \in DOMAIN issues}
\* how often a sequence holds an entry
Occurrences(seq, e) == Cardinality({k \in DOMAIN seq : seq[k] = e})

\* C15: the message of a failed Dependencies check holds exactly one entry
\* "source -> missing" for every (issue, dependency) pair of the list it loaded whose
\* dependency id is absent from the list, and no other entry; the check fails exactly
\* if there is such a pair.
C15_AllViolationsCollected ==
    \A k \in DOMAIN results : \A l \in DOMAIN loads :
        (results[k].name = "Dependencies" /\ loads[l].by = "Dependencies")
            => LET issues == loads[l].issues.items
                   entries == results[k].msg.items
               IN /\ \A p \in DanglingPairs(issues) : Occurrences(entries, p) = 1
                  /\ \A e \in DOMAIN entries : entries[e] \in DanglingPairs(issues)
                  /\ results[k].passed <=> DanglingPairs(issues) = {}
\* a failed check whose message lists the violations of two different issues
C15_Witness ==
    \E k \in DOMAIN results :
        /\ results[k].name = "Dependencies" /\ ~results[k].passed
        /\ Len(results[k].msg.items) >= 2
        /\ \E e, f \in DOMAIN results[k].msg.items :
              results[k].msg.items[e][1] # results[k].msg.items[f][1]

(***************************************************************************)
(* Further properties of one run of the beads validator.                   *)
(***************************************************************************)
\* some issue of the list names itself as a dependency
SelfDependent(issues) ==
    \E i \in DOMAIN issues : \E d \in DOMAIN issues[i].dependencies :
        issues[i].dependencies[d] = issues[i].id

\* C16: a run over a graph with an issue that lists itself as a dependency, in which
\* the tracker answered the Dependencies check with its issue list, never reports
\* both Dependencies and Circular Deps as passed.
C16_SelfDependencyRejected ==
    \A k, j \in DOMAIN results : \A l \in DOMAIN loads :
        (/\ results[k].name = "Dependencies" /\ results[j].name = "Circular Deps"
         /\ loads[l].by = "Dependencies" /\ loads[l].answered
         /\ SelfDependent(loads[l].issues.items))
            => ~(results[k].passed /\ results[j].passed)

(***************************************************************************)
(* Further properties of the beads checks on the wider inputs.             *)
(***************************************************************************)
\* the (id, priority) pairs of the issues whose priority is none of 1, 2, 3
OffendingPriorities(issues) ==
    {<<issues[i].id, issues[i].priority>> :
        i \in {x \in DOMAIN issues : issues[x].priority \notin {1, 2, 3}}}

\* C17: the Priorities check fails exactly when an issue of the list it loaded has a
\* priority outside {1, 2, 3}; its message names each such issue once with the
\* priority observed and names no other issue; this holds whatever the Ready Queue
\* check before it reported, and the Ready Queue result in turn is settled by the
\* statuses of the issues alone, whatever their priorities.
C17_PrioritiesAloneDecide ==
    /\ \A k \in DOMAIN results : \A l \in DOMAIN loads :
          (results[k].name = "Priorities" /\ loads[l].by = "Priorities")
              => LET issues == loads[l].issues.items
                     entries == results[k].msg.items
                 IN /\ results[k].passed <=> OffendingPriorities(issues) = {}
                    /\ \A p \in OffendingPriorities(issues) : Occurrences(entries, p) = 1
                    /\ \A e \in DOMAIN entries : entries[e] \in OffendingPriorities(issues)
    /\ \A k \in DOMAIN results :
          results[k].name = "Ready Queue"
              => (results[k].passed <=>
                      \A l \in DOMAIN loads :
                          loads[l].by = "Ready Queue"
                              => \A i \in DOMAIN loads[l].issues.items :
                                     loads[l].issues.items[i].status = "closed")

\* the Ready Queue check failed and the Priorities check after it names two issues,
\* one with a priority below and one with a priority above the valid range
C17_Witness ==
    \E k, j \in DOMAIN results :
        /\ results[k].name = "Ready Queue" /\ ~results[k].passed
        /\ results[j].name = "Priorities" /\ ~results[j].passed
        /\ \E a, b \in DOMAIN results[j].msg.items :
              results[j].msg.items[a][2] = 0 /\ results[j].msg.items[b][2] = 4

\* C18: the PRD Mapping check passes exactly when the number of issues it loaded is
\* at least the feature count the extractor delivered: with the count 0 of a
\* document that could not be read it passes on every issue list, and with a
\* count f > 0 its message carries f and the number c of loaded issues and it
\* passes iff c >= f.
C18_CoverageIffEnoughIssues ==
    \A k \in DOMAIN results : \A l \in DOMAIN loads :
        (results[k].name = "PRD Mapping" /\ loads[l].by = "PRD Mapping")
            => LET issue_count == Len(loads[l].issues.items)
                   entries == results[k].msg.items
               IN IF results[k].msg.text = "Could not parse PRD features"
                  THEN results[k].passed /\ entries = <<>>
                  ELSE /\ Len(entries) = 1
                       /\ entries[1][1] > 0
                       /\ entries[1][2] = issue_count
                       /\ results[k].passed <=> issue_count >= entries[1][1]

\* the boundary: a tracker that answered with exactly as many issues as the
\* document has features, more than one, and the check passed
C18_Witness ==
    \E k \in DOMAIN results : \E l \in DOMAIN loads :
        /\ results[k].name = "PRD Mapping" /\ loads[l].by = "PRD Mapping"
        /\ loads[l].answered
        /\ results[k].passed
        /\ results[k].msg.items # <<>>
        /\ results[k].msg.items[1][1] = Len(loads[l].issues.items)
        /\ Len(loads[l].issues.items) > 1

(***************************************************************************)
(* Further properties of one run of the beads validator, continued.        *)
(***************************************************************************)
\* C19: the feature count handed to the PRD Mapping check is never zero; the check
\* answers "Could not parse PRD features" exactly when it was handed the count 0,
\* so no PRD Mapping result of a run carries that message.
C19_FeatureCountNeverZero ==
    \A k \in DOMAIN results :
        results[k].name = "PRD Mapping"
            => results[k].msg.text # "Could not parse PRD features"

\* C20: whenever the issue list the Ready Queue check loaded holds no issue whose
\* status is other than "closed" (the empty list included), the check passes with
\* "No open issues (all done)"; it fails only with the message "Issues exist but
\* none are ready (all blocked)", and only when the loaded list holds an issue
\* that is not closed.
C20_EmptyIsNotDeadlock ==
    \A k \in DOMAIN results :
        results[k].name = "Ready Queue"
            => /\ \A l \in DOMAIN loads :
                     (/\ loads[l].by = "Ready Queue"
                      /\ \A i \in DOMAIN loads[l].issues.items :
                            loads[l].issues.items[i].status = "closed")
                         => /\ results[k].passed
                            /\ results[k].msg.text = "No open issues (all done)"
               /\ ~results[k].passed
                     => /\ results[k].msg.text = "Issues exist but none are ready (all blocked)"
                        /\ \E l \in DOMAIN loads :
                              /\ loads[l].by = "Ready Queue"
                              /\ \E i \in DOMAIN loads[l].issues.items :
                                    loads[l].issues.items[i].status # "closed"

\* the tool reported no ready issue, the tracker answered with a list that is empty
\* or all closed, and the check passed as "all done"
C20_Witness ==
    \E k \in DOMAIN results : \E l \in DOMAIN loads :
        /\ results[k].name = "Ready Queue" /\ loads[l].by = "Ready Queue"
        /\ loads[l].answered
        /\ \A i \in DOMAIN loads[l].issues.items : loads[l].issues.items[i].status = "closed"
        /\ results[k].passed
        /\ results[k].msg.text = "No open issues (all done)"

\* C21: every failed result of the Dependencies, Priorities and Ready Queue checks
\* names the offending issues: the values formatted into its message are not empty
\* (pairs of source and missing id, pairs of id and priority, the blocked issues).
C21_FailuresNameIssues ==
    \A k \in DOMAIN results :
        (~results[k].passed /\ results[k].name \in {"Dependencies", "Priorities", "Ready Queue"})
            => results[k].msg.items # <<>>

(***************************************************************************)
(* Properties of the validator run twice.                                  *)
(***************************************************************************)
\* the results of the checks named in `names`, in order
ResultsNamed(rs, names) == SelectSeq(rs, LAMBDA r : r.name \in names)

\* C22: two runs of all checks against a tracker nobody changed leave identical
\* reports: the same results with the same messages, the same lines printed and
\* the same exit status; stated for the runs that both ended by sys.exit, and in
\* which `bd doctor` and `bd ready` led to the same Circular Deps and Ready Queue
\* results both times.
C22_RerunIdentical ==
    (/\ previous # NoReport
     /\ pc = "exited"
     /\ previous.exit_status = exit_code(previous.results)
     /\ Len(previous.results) = Len(results)
     /\ args.all
     /\ ~changed
     /\ ResultsNamed(previous.results, {"Circular Deps", "Ready Queue"})
            = ResultsNamed(results, {"Circular Deps", "Ready Queue"}))
        => previous = Report

C24_ExitFollowsReport ==
    /\ [](script = "verify"
            => /\ report.passed <=> \A k \in DOMAIN report.checks : report.checks[k].passed
               /\ tool_pc = "exited"
                     => IF tool_args.language = ""
                        THEN tool_exit = 1 /\ report.checks = <<>>
                        ELSE /\ tool_exit \in {0, 1}
                             /\ tool_exit = 0 <=> report.passed)
    /\ [][script = "verify" => (~report.passed => ~report'.passed)]_vars

\* a run that exited with status 1 although the check added last had passed: an
\* earlier check had failed
C24_Witness ==
    /\ script = "verify" /\ tool_pc = "exited" /\ tool_exit = 1
    /\ Len(report.checks) > 1
    /\ report.checks[Len(report.checks)].passed
    /\ \E k \in DOMAIN report.checks : ~report.checks[k].passed

\* the order of the severities: critical > high > medium > low
Rank(level) ==
    IF level = "critical" THEN 4 ELSE IF level = "high" THEN 3
    ELSE IF level = "medium" THEN 2 ELSE 1

\* C25: the security scanner exits with status 1 iff a reported issue has a severity
\* at or above the --fail-on level, and with status 0 otherwise; hence, for the same
\* issues, a scan that fails at one level fails at every lower level too.
C25_ExitFollowsFailOn ==
    (script = "security_scan" /\ tool_pc = "exited")
        => /\ tool_exit \in {0, 1}
           /\ tool_exit = 1 <=>
                 \E k \in DOMAIN tool_results :
                     Rank(tool_results[k].severity) >= Rank(tool_args.fail_on)
           /\ \A lower \in Levels :
                 (Rank(lower) <= Rank(tool_args.fail_on) /\ tool_exit = 1)
                     => should_fail(tool_results, lower)

\* a scan with --fail-on high that failed on critical issues alone, and one file
\* of which matched nothing
C25_Witness ==
    /\ script = "security_scan" /\ tool_pc = "exited" /\ tool_exit = 1
    /\ tool_args.fail_on = "high"
    /\ index > Len(tool_results)
    /\ \A k \in DOMAIN tool_results : tool_results[k].severity = "critical"

\* C26: at every point of a run of validate_prd.py, `valid` holds iff no error has
\* been recorded, and a step that only adds warnings leaves `valid` as it is; the
\* run exits with status 0 iff the result is valid (a run that finds no PRD exits
\* with status 1); a --strict run ends with an empty warnings list, each warning
\* having become an error, and so exits with status 0 iff the document gave rise
\* to neither errors nor warnings.
C26_ExitFollowsValid ==
    /\ [](script = "validate_prd"
            => /\ validation.valid <=> validation.errors = <<>>
               /\ tool_pc = "exited"
                     => /\ tool_exit \in {0, 1}
                        /\ tool_exit = 0 <=> (tool_args.found /\ validation.valid)
                        /\ (tool_args.strict /\ tool_args.found)
                              => /\ validation.warnings = <<>>
                                 /\ tool_exit = 0 <=>
                                       /\ tool_args.doc.readable /\ ~tool_args.doc.short
                                       /\ tool_args.doc.missing = {}
                                       /\ tool_args.doc.warns = {}
                                 /\ \A w \in tool_args.doc.warns :
                                       \E k \in DOMAIN validation.errors :
                                           validation.errors[k] = Msg("(strict) {}", <<w>>))
    /\ [][(script = "validate_prd" /\ validation'.errors = validation.errors)
              => validation'.valid = validation.valid]_vars

\* a strict run over a document that lacks no required section and gives rise to a
\* warning: the warning was promoted, and the run exited with status 1
C26_Witness ==
    /\ script = "validate_prd" /\ tool_pc = "exited" /\ tool_exit = 1
    /\ tool_args.strict /\ tool_args.found
    /\ tool_args.doc.missing = {} /\ tool_args.doc.warns # {}
    /\ validation.warnings = <<>>
    /\ Len(validation.errors) = Cardinality(tool_args.doc.warns)

\* the payloads C27 says the hook blocks: the Task tool, a subagent type that holds
\* a dev-agent name, and a prompt that matches no TDD and no creation indicator
GateBlocks(p) ==
    /\ p.kind = "object"
    /\ p.tool_name = "Task"
    /\ p.tool_input.kind = "object"
    /\ p.tool_input.subagent_type \in {"rust-developer", "vibe-coder:rust-developer",
                                       "list_of_rust-developer"}
    /\ p.tool_input.prompt \notin {"tdd", "creation", "tdd_and_creation"}

\* C27: the hook has ended with a deny decision and status 2 iff the tool is Task,
\* the subagent type holds a dev-agent name and the prompt matches neither a TDD
\* nor a project-creation indicator; on every other payload it has ended with
\* status 0 and without a deny decision.
C27_DenyIffUntestedDevTask ==
    (script = "tdd_gate" /\ tool_pc \in {"exited", "crashed"})
        => IF GateBlocks(tool_args.stdin)
           THEN tool_exit = 2 /\ tool_results = <<Deny>>
           ELSE tool_exit = 0 /\ tool_results = <<>>

\* C30: on every payload the hook ends with status 0 (allow) or 2 (deny), never by
\* an exception that nothing handles.
C30_HookIsTotal ==
    (script = "tdd_gate" /\ tool_pc \in {"exited", "crashed"})
        => tool_pc = "exited" /\ tool_exit \in {0, 2}

\* the steps a command line of check.py selects, as a set: the names after --only,
\* or every step but the names after --skip
SelectedSteps(a) ==
    IF a.only # <<>> THEN Range(a.only) ELSE Range(STEPS) \ Range(a.skip)

\* C28: check.py runs the selected steps in the order lint, test, audit, build, each
\* at most once, however --only or --skip names them; without --continue only the
\* step run last can have returned non-zero; a run that ended with --continue has
\* run every selected step; and the exit status is 1 iff a step that was run
\* returned non-zero (a run that finds no Cargo.toml runs no step and exits 1).
C28_FixedOrderFailFast ==
    /\ [](script = "check"
            => LET ran == Executed(tool_results)
                   selected == SelectSeq(STEPS, LAMBDA s : s \in SelectedSteps(tool_args))
               IN /\ Len(ran) <= Len(selected)
                  /\ ran = SubSeq(selected, 1, Len(ran))
                  /\ ~tool_args.continue_on_fail
                        => \A k \in 1..(Len(tool_results) - 1) : tool_results[k].exit_code = 0
                  /\ (tool_pc = "exited" /\ tool_args.cargo_toml)
                        => /\ tool_args.continue_on_fail => ran = selected
                           /\ tool_exit \in {0, 1}
                           /\ tool_exit = 1 <=>
                                 \E k \in DOMAIN tool_results : tool_results[k].exit_code # 0
                  /\ (tool_pc = "exited" /\ ~tool_args.cargo_toml)
                        => tool_exit = 1 /\ ran = <<>>)
    /\ [][script = "check"
            => \/ tool_results' = tool_results
               \/ /\ Len(tool_results') = Len(tool_results) + 1
                  /\ SubSeq(tool_results', 1, Len(tool_results)) = tool_results]_vars

\* a run with `--continue --only build lint`: lint was run first and failed, build
\* was run after it, and the run exited with status 1
C28_Witness ==
    /\ script = "check" /\ tool_pc = "exited" /\ tool_exit = 1
    /\ tool_args.continue_on_fail
    /\ tool_args.only = <<"build", "lint">>
    /\ Executed(tool_results) = <<"lint", "build">>
    /\ tool_results[1].exit_code # 0

\* C29: in a run of lint.py with --ci, with or without --fix, every rustfmt command
\* started carries --check and no clippy command started carries --fix; rustfmt is
\* started before clippy; and once rustfmt has returned non-zero the run has exited
\* with status 1 and no clippy command was started.
C29_CiNeverModifies ==
    (script = "lint" /\ tool_args.ci)
        => /\ \A k \in DOMAIN invoked :
                 /\ invoked[k].step = "rustfmt" => "--check" \in Range(invoked[k].cmd)
                 /\ invoked[k].step = "clippy" => "--fix" \notin Range(invoked[k].cmd)
           /\ \A i, j \in DOMAIN invoked :
                 (invoked[i].step = "rustfmt" /\ invoked[j].step = "clippy") => i < j
           /\ (\E k \in DOMAIN tool_results :
                   tool_results[k].step = "rustfmt" /\ tool_results[k].exit_code # 0)
                 => /\ tool_pc = "exited" /\ tool_exit = 1
                    /\ \A k \in DOMAIN invoked : invoked[k].step # "clippy"

\* a run with --ci and --fix in which rustfmt --check passed and clippy was started
\* after it, without --fix
C29_Witness ==
    /\ script = "lint" /\ tool_args.ci /\ tool_args.fix
    /\ Len(invoked) = 2
    /\ invoked[1].step = "rustfmt" /\ "--check" \in Range(invoked[1].cmd)
    /\ invoked[2].step = "clippy" /\ "--fix" \notin Range(invoked[2].cmd)
    /\ tool_pc = "exited"

====
